---- MODULE Spec2Model ----
(***************************************************************************)
(* Log grouping pipeline of Identifiai: the message normalizer             *)
(* (normalizeErrorPattern), the waterfall classifier, the fingerprint      *)
(* generator and the checkpointed batch scanner/writer.                    *)
(*                                                                         *)
(* A string is a sequence of one-character strings, so that the regular    *)
(* expressions of the normalizer act on the characters they act on in the  *)
(* program.                                                                *)
(***************************************************************************)
EXTENDS Integers, Sequences, FiniteSets, TLC

VARIABLES
    \* ---- normalizer harness ----
    msg,        \* the value handed to normalizeErrorPattern
    out1,       \* normalizeErrorPattern(msg)
    out2,       \* normalizeErrorPattern(out1)
    npc,        \* "new" | "once" | "twice"
    \* ---- classifier harness ----
    rec,        \* the fields of the record handed to the classifier
    cls,        \* its classification
    cpc,        \* "new" | "classified"
    \* ---- batch scanner / writer ----
    source,     \* the source store: the log records, in timestamp order
    checkpoint, \* the checkpoint store: last_processed_timestamp
    groups,     \* the group store: fingerprint -> ErrorGroup document
    pc,         \* where the pass is: "idle" | "scan" | "aggregated" | "flushed"
                \*                    | "done" | "aborted"
    cursor,     \* the number of source records the cursor has passed
    page,       \* the page in hand: its records, classified
    agg,        \* the page's in-memory aggregation: fingerprint -> delta
    passes,     \* the number of passes started
    faults,     \* the number of store failures and interruptions so far
    \* ---- history of the batch scanner (not read by the program) ----
    flushedTimes,       \* per source record: in how many confirmed flushes it was
    groupsAtPassStart,  \* the group store when the current pass started
    groupsAtPageStart,  \* the group store when the current page started
    cpAtPageStart,      \* the checkpoint when the current page started
    lastFault,          \* "none" | "read" | "flush" | "checkpoint" | "interrupt"
    faultKinds,         \* the kinds of all the faults so far
    assigned,           \* every (level, inputs, fingerprint) a pass has computed
    \* ---- operator UI and diagnosis worker, on the group store ----
    lastWrite,  \* the form of the last write the operator UI posted
    writes,     \* the number of writes the operator UI has posted
    lastDiag,   \* the last run of the diagnosis step: group, status found, outcome
    \* ---- "Apply Rules Now" of GroupingStudio ----
    isApplying, \* per browser session: the isApplying state of the page
    applyRun,   \* per browser session: the pass its request started
    \* ---- App: authentication and routing ----
    authLoading,  \* useAuth().loading
    authUser,     \* useAuth().user is set
    history,      \* the browser's history stack; its last entry is the location
    activePage,   \* App's activePage state
    hops,         \* the redirects made since the last event from outside
    pendingAuth,  \* a sign-in was accepted, the auth state callback has not run
    pendingNav,   \* handleLogin has still to call navigate('/')
    \* ---- Dashboard ----
    dLoading,     \* loading: the full-page loading state
    tableLoading, \* tableLoading: the overlay of the table
    metrics,      \* metrics is set
    table,        \* tableData: the query it answers (0: no rows) and the rows' statuses
    query,        \* the current search, sort and filter
    fetchFn,      \* the current fetchLogs: the query and the data its closure holds
    timer,        \* the timeout of the reactive table update is armed
    bulk,         \* the bulk request of the first load: "pending" | "done" | "failed"
    fetches,      \* the fetchLogs requests in flight
    issued,       \* the number of fetchLogs requests issued
    fetchFailed,  \* a fetchLogs request has failed
    updating,     \* updating: the doc id of a row, or "null"
    statusReqs,   \* the update-status requests in flight
    serverStatus, \* the statuses the server holds
    statusDone,   \* the update-status request that completed last, and how
    \* ---- UploadLogs ----
    uploadingFiles,  \* uploadingFiles: the files of the list, each with id, status, progress
    isGlobalLoading, \* isGlobalLoading
    filesToUpload,   \* handleUploadAll: the ids of filesToUpload
    upIdx,           \* handleUploadAll: the position of its loop, 0 when it is not running
    nextId,          \* the number of files added so far
    uploadLog,       \* the ids handleUploadAll has posted in its current or last run
    outcome,         \* per file id: "none" | "ok" | "failed", the end of its request
    \* ---- ChatAgent ----
    input,      \* input: the text of the textarea ("" or a question)
    messages,   \* messages: role and the number of the exchange they belong to
    isLoading,  \* isLoading
    inFlight,   \* the number of chat requests in flight
    sent,       \* the number of messages handleSend has sent
    \* ---- GroupingStudio: the table and its selection ----
    data,          \* data: the doc ids of the groups loaded
    filteredData,  \* filteredData: the doc ids of the rows shown
    searchQuery,   \* searchQuery
    selectedIds    \* selectedIds (no id is in it twice: a row is added while unchecked)

normVars == <<msg, out1, out2, npc>>

classVars == <<rec, cls, cpc>>

batchVars == <<source, checkpoint, groups, pc, cursor, page, agg, passes, faults>>

histVars == <<flushedTimes, groupsAtPassStart, groupsAtPageStart, cpAtPageStart,
              lastFault, faultKinds, assigned>>

uiVars == <<lastWrite, writes, lastDiag>>

applyVars == <<isApplying, applyRun>>

routeVars == <<authLoading, authUser, history, activePage, hops, pendingAuth, pendingNav>>

dashVars == <<dLoading, tableLoading, metrics, table, query, fetchFn, timer, bulk,
              fetches, issued, fetchFailed, updating, statusReqs, serverStatus, statusDone>>

uploadVars == <<uploadingFiles, isGlobalLoading, filesToUpload, upIdx, nextId, uploadLog, outcome>>

\* the variables of the single-page application
chatVars == <<input, messages, isLoading, inFlight, sent>>

studioVars == <<data, filteredData, searchQuery, selectedIds>>

frontVars == <<routeVars, dashVars, uploadVars, chatVars, studioVars>>

\* the variables of the normalizer, the classifier, the batch pipeline and its operators
backVars == <<normVars, classVars, batchVars, histVars, uiVars, applyVars>>

\* what the routing leaves alone
notRoute == <<backVars, dashVars, uploadVars, chatVars, studioVars>>

\* what the Dashboard leaves alone
notDash == <<backVars, routeVars, uploadVars, chatVars, studioVars>>

\* what UploadLogs leaves alone
notUpload == <<backVars, routeVars, dashVars, chatVars, studioVars>>

\* what ChatAgent leaves alone
notChat == <<backVars, routeVars, dashVars, uploadVars, studioVars>>

\* what GroupingStudio leaves alone
notStudio == <<backVars, routeVars, dashVars, uploadVars, chatVars>>

RouteOff ==
    /\ authLoading = FALSE
    /\ authUser = FALSE
    /\ history = <<>>
    /\ activePage = "off"
    /\ hops = 0
    /\ pendingAuth = FALSE
    /\ pendingNav = FALSE

DashOff ==
    /\ dLoading = FALSE
    /\ tableLoading = FALSE
    /\ metrics = FALSE
    /\ table = <<>>
    /\ query = 0
    /\ fetchFn = <<>>
    /\ timer = FALSE
    /\ bulk = "off"
    /\ fetches = {}
    /\ issued = 0
    /\ fetchFailed = FALSE
    /\ updating = "null"
    /\ statusReqs = {}
    /\ serverStatus = <<>>
    /\ statusDone = <<>>

UploadOff ==
    /\ uploadingFiles = <<>>
    /\ isGlobalLoading = FALSE
    /\ filesToUpload = <<>>
    /\ upIdx = 0
    /\ nextId = 0
    /\ uploadLog = <<>>
    /\ outcome = <<>>

ChatOff ==
    /\ input = "off"
    /\ messages = <<>>
    /\ isLoading = FALSE
    /\ inFlight = 0
    /\ sent = 0

StudioOff ==
    /\ data = {}
    /\ filteredData = {}
    /\ searchQuery = "off"
    /\ selectedIds = {}

FrontOff == RouteOff /\ DashOff /\ UploadOff /\ ChatOff /\ StudioOff

(***************************************************************************)
(* Characters                                                              *)
(***************************************************************************)
Digit == {"0", "1", "2", "3", "4", "5", "6", "7", "8", "9"}

Upper == {"A", "B", "C", "D", "E", "F", "G", "H", "I", "J", "K", "L", "M",
          "N", "O", "P", "Q", "R", "S", "T", "U", "V", "W", "X", "Y", "Z"}

Lower == {"a", "b", "c", "d", "e", "f", "g", "h", "i", "j", "k", "l", "m",
          "n", "o", "p", "q", "r", "s", "t", "u", "v", "w", "x", "y", "z"}

Alpha == Upper \cup Lower

AlNum == Alpha \cup Digit

\* [0-9a-fA-F]
HexDigit == Digit \cup {"a", "b", "c", "d", "e", "f", "A", "B", "C", "D", "E", "F"}

\* \s
Space == {" ", "\t", "\n", "\r", "\f"}

\* \w
WordChar == AlNum \cup {"_"}

(***************************************************************************)
(* Regular expressions.  A regular expression is a sequence of nodes:      *)
(*   cls  a character class with a greedy repetition {min,max}             *)
(*        (max = 0: no upper limit; neg: a negated class [^...])           *)
(*   alt  (?:a|b|...), the alternatives tried left to right                *)
(*   opt  (?:...)?, greedy                                                 *)
(*   wb   \b            eol  $                                             *)
(*   la   (?=...)       nla  (?!...)                                       *)
(***************************************************************************)
Between(set, lo, hi) == [t |-> "cls", neg |-> FALSE, set |-> set, min |-> lo, max |-> hi]

Exactly(set, n) == Between(set, n, n)

AtLeast(set, n) == Between(set, n, 0)

\* a repetition of the negated class [^...]
Not(set, lo, hi) == [t |-> "cls", neg |-> TRUE, set |-> set, min |-> lo, max |-> hi]

Ch(c) == Between({c}, 1, 1)

Lit(str) == [i \in 1..Len(str) |-> Ch(str[i])]

Alt(alts) == [t |-> "alt", alts |-> alts]

Opt(re) == [t |-> "opt", re |-> re]

WB == [t |-> "wb"]

EOL == [t |-> "eol"]

LookAhead(re) == [t |-> "la", re |-> re]

NotLookAhead(re) == [t |-> "nla", re |-> re]

InClass(n, c) == IF n.neg THEN c \notin n.set ELSE c \in n.set

IsWordAt(s, i) == i >= 1 /\ i <= Len(s) /\ s[i] \in WordChar

\* \b holds between s[i-1] and s[i]
IsWordBoundary(s, i) == IsWordAt(s, i - 1) # IsWordAt(s, i)

Min(S) == CHOOSE x \in S : \A y \in S : x <= y

Max(S) == CHOOSE x \in S : \A y \in S : x >= y

\* the number of consecutive characters of class n from position i, at most cap
RunLen(n, s, i, cap) ==
    LET last == IF i + cap - 1 < Len(s) THEN i + cap - 1 ELSE Len(s)
        stops == {j \in i..last : ~InClass(n, s[j])}
    IN IF stops = {} THEN last - i + 1 ELSE Min(stops) - i

RECURSIVE Match(_, _, _)
RECURSIVE TryAlts(_, _, _, _, _)

(* Match(re, s, i): the backtracking matcher of the JavaScript engine.  The *)
(* position after the first match of re found at position i, trying greedy  *)
(* repetitions from the longest down and alternatives left to right; 0 when *)
(* re does not match at i.                                                  *)
Match(re, s, i) ==
    IF re = <<>> THEN i
    ELSE LET n == Head(re)
             rest == Tail(re)
         IN CASE n.t = "cls" ->
                   LET run == RunLen(n, s, i, IF n.max = 0 THEN Len(s) ELSE n.max)
                       \* each repetition count k with the end of the rest's match
                       tries == {<<k, Match(rest, s, i + k)>> : k \in n.min..run}
                       ok == {p \in tries : p[2] # 0}
                   IN IF run < n.min THEN 0
                      ELSE IF run = n.min THEN Match(rest, s, i + run)
                      ELSE IF ok = {} THEN 0
                      ELSE (CHOOSE p \in ok : \A q \in ok : q[1] <= p[1])[2]
              [] n.t = "alt" -> TryAlts(n.alts, 1, rest, s, i)
              [] n.t = "opt" ->
                   LET r == Match(n.re \o rest, s, i)
                   IN IF r # 0 THEN r ELSE Match(rest, s, i)
              [] n.t = "wb" -> IF IsWordBoundary(s, i) THEN Match(rest, s, i) ELSE 0
              [] n.t = "eol" -> IF i = Len(s) + 1 THEN Match(rest, s, i) ELSE 0
              [] n.t = "la" -> IF Match(n.re, s, i) # 0 THEN Match(rest, s, i) ELSE 0
              [] n.t = "nla" -> IF Match(n.re, s, i) = 0 THEN Match(rest, s, i) ELSE 0

TryAlts(alts, j, rest, s, i) ==
    IF j > Len(alts) THEN 0
    ELSE LET r == Match(alts[j] \o rest, s, i)
         IN IF r # 0 THEN r ELSE TryAlts(alts, j + 1, rest, s, i)

(***************************************************************************)
(* String.prototype.replace with a global regular expression.  A rule is   *)
(* [pre, post, repl]: the expression is pre followed by post, and a match  *)
(* is replaced by the text pre matched (the captured groups $1, $1$2=)     *)
(* followed by repl.  In every rule that captures, pre ends where the      *)
(* capture ends in the whole match: the character that follows the last    *)
(* captured repetition ('=' after [a-zA-Z_]+, '?' after [^\s?]+) is not in *)
(* its class, so backtracking cannot move that end.                        *)
(*                                                                         *)
(* The scan goes left to right: at a position where the expression         *)
(* matches, the match is replaced and the scan resumes after it; elsewhere *)
(* the character is copied.  ReplaceRange(rule, s, i, hi) is the scan from  *)
(* position i until it reaches or passes hi: the text produced and the     *)
(* position reached (the range is halved to keep the evaluation shallow).  *)
(***************************************************************************)
Rule(pre, post, repl) == [pre |-> pre, post |-> post, repl |-> repl]

\* one step of the scan, at position i
ReplaceAt(rule, s, i) ==
    LET e == Match(rule.pre \o rule.post, s, i)
    IN IF e = 0 THEN [out |-> <<s[i]>>, pos |-> i + 1]
       ELSE [out |-> SubSeq(s, i, Match(rule.pre, s, i) - 1) \o rule.repl, pos |-> e]

RECURSIVE ReplaceRange(_, _, _, _)
ReplaceRange(rule, s, i, hi) ==
    IF i >= hi THEN [out |-> <<>>, pos |-> i]
    ELSE IF hi = i + 1 THEN ReplaceAt(rule, s, i)
    ELSE LET left == ReplaceRange(rule, s, i, (i + hi) \div 2)
             right == ReplaceRange(rule, s, left.pos, hi)
         IN [out |-> left.out \o right.out, pos |-> right.pos]

ReplaceAll(rule, s) == ReplaceRange(rule, s, 1, Len(s) + 1).out

(***************************************************************************)
(* The substitution rules of normalizeErrorPattern, in the order of the    *)
(* source.                                                                 *)
(***************************************************************************)
\* /\((\d+)\)/g -> (*)
ParenIndex == Rule(<<>>, <<Ch("("), AtLeast(Digit, 1), Ch(")")>>, <<"(", "*", ")">>)

\* /\[(\d+)\]/g -> [*]
BracketIndex == Rule(<<>>, <<Ch("["), AtLeast(Digit, 1), Ch("]")>>, <<"[", "*", "]">>)

PhDate == <<"[", "D", "A", "T", "E", "]">>

DayName == Alt(<<Lit(<<"M", "o", "n">>), Lit(<<"T", "u", "e">>), Lit(<<"W", "e", "d">>), Lit(<<"T", "h", "u">>), Lit(<<"F", "r", "i">>), Lit(<<"S", "a", "t">>), Lit(<<"S", "u", "n">>)>>)

MonthName == Alt(<<Lit(<<"J", "a", "n">>), Lit(<<"F", "e", "b">>), Lit(<<"M", "a", "r">>), Lit(<<"A", "p", "r">>), Lit(<<"M", "a", "y">>), Lit(<<"J", "u", "n">>), Lit(<<"J", "u", "l">>), Lit(<<"A", "u", "g">>), Lit(<<"S", "e", "p">>), Lit(<<"O", "c", "t">>), Lit(<<"N", "o", "v">>), Lit(<<"D", "e", "c">>)>>)

ZoneName == Alt(<<Lit(<<"G", "M", "T">>), Lit(<<"U", "T", "C">>), Lit(<<"E", "S", "T">>), Lit(<<"E", "D", "T">>), Lit(<<"P", "S", "T">>), Lit(<<"P", "D", "T">>), <<Between(Upper, 2, 4)>>>>)

ClockTime == <<Exactly(Digit, 2), Ch(":"), Exactly(Digit, 2), Ch(":"), Exactly(Digit, 2)>>

YearMonthDay == <<Exactly(Digit, 4), Ch("-"), Exactly(Digit, 2), Ch("-"), Exactly(Digit, 2)>>

\* HTTP date: Thu, 04 Dec 2025 11:34:44 GMT
HttpDate ==
    Rule(<<>>,
         <<DayName, Ch(","), AtLeast(Space, 1), Between(Digit, 1, 2), AtLeast(Space, 1),
           MonthName, AtLeast(Space, 1), Exactly(Digit, 4), AtLeast(Space, 1)>>
         \o ClockTime \o <<AtLeast(Space, 1), ZoneName, WB>>,
         PhDate)

\* ISO 8601: \d{4}-\d{2}-\d{2}T\d{2}:\d{2}:\d{2}(?:\.\d+)?(?:Z|[+-]\d{2}:\d{2})?
IsoDateTime ==
    Rule(<<>>,
         YearMonthDay \o <<Ch("T")>> \o ClockTime
         \o <<Opt(<<Ch("."), AtLeast(Digit, 1)>>),
              Opt(<<Alt(<<Lit(<<"Z">>),
                          <<Exactly({"+", "-"}, 1), Exactly(Digit, 2), Ch(":"),
                            Exactly(Digit, 2)>>
                        >>)>>)>>,
         PhDate)

\* \d{4}-\d{2}-\d{2}
IsoDate == Rule(<<>>, YearMonthDay, PhDate)

\* \d{2}\/\d{2}\/\d{4}
SlashDate ==
    Rule(<<>>,
         <<Exactly(Digit, 2), Ch("/"), Exactly(Digit, 2), Ch("/"), Exactly(Digit, 4)>>,
         PhDate)

\* 8-4-4-4-12 hexadecimal digits
Uuid ==
    Rule(<<>>,
         <<Exactly(HexDigit, 8), Ch("-"), Exactly(HexDigit, 4), Ch("-"),
           Exactly(HexDigit, 4), Ch("-"), Exactly(HexDigit, 4), Ch("-"),
           Exactly(HexDigit, 12)>>,
         <<"[", "U", "U", "I", "D", "]">>)

\* /"id"\s*:\s*"[A-Za-z0-9]{10,}"/g -> "id":"[JSON_ID]"
JsonId ==
    Rule(<<>>,
         Lit(<<"\"", "i", "d", "\"">>) \o <<AtLeast(Space, 0), Ch(":"), AtLeast(Space, 0), Ch("\""),
                         AtLeast(AlNum, 10), Ch("\"")>>,
         <<"\"", "i", "d", "\"", ":", "\"", "[", "J", "S", "O", "N", "_", "I", "D", "]", "\"">>)

\* /[A-Z]+-\d+/g
CaseId == Rule(<<>>, <<AtLeast(Upper, 1), Ch("-"), AtLeast(Digit, 1)>>, <<"[", "C", "A", "S", "E", "_", "I", "D", "]">>)

\* /\b\d{6,}\b/g
LongNumericId == Rule(<<>>, <<WB, AtLeast(Digit, 6), WB>>, <<"[", "I", "D", "]">>)

\* /\b[A-Za-z0-9._%+-]+@[A-Za-z0-9.-]+\.[A-Z|a-z]{2,}\b/g
Email ==
    Rule(<<>>,
         <<WB, AtLeast(AlNum \cup {".", "_", "%", "+", "-"}, 1), Ch("@"),
           AtLeast(AlNum \cup {".", "-"}, 1), Ch("."), AtLeast(Alpha \cup {"|"}, 2), WB>>,
         <<"[", "E", "M", "A", "I", "L", "]">>)

\* /\b\d{1,3}\.\d{1,3}\.\d{1,3}\.\d{1,3}\b/g
IpAddress ==
    Rule(<<>>,
         <<WB, Between(Digit, 1, 3), Ch("."), Between(Digit, 1, 3), Ch("."),
           Between(Digit, 1, 3), Ch("."), Between(Digit, 1, 3), WB>>,
         <<"[", "I", "P", "]">>)

\* [^\s<>"|?*]
PathStop == Space \cup {"<", ">", "\"", "|", "?", "*"}

PhFilePath == <<"[", "F", "I", "L", "E", "_", "P", "A", "T", "H", "]">>

\* /[A-Za-z]:\\[^\s<>"|?*]+/g
WindowsPath ==
    Rule(<<>>, <<Exactly(Alpha, 1), Ch(":"), Ch("\\"), Not(PathStop, 1, 0)>>, PhFilePath)

\* /\/[^\s<>"|?*]{2,}/g
UnixPath == Rule(<<>>, <<Ch("/"), Not(PathStop, 2, 0)>>, PhFilePath)

\* /\/[A-Za-z0-9_-]{15,}\*\//g -> /[SESSION_ID]*/
SessionId ==
    Rule(<<>>,
         <<Ch("/"), AtLeast(AlNum \cup {"_", "-"}, 15), Ch("*"), Ch("/")>>,
         <<"/", "[", "S", "E", "S", "S", "I", "O", "N", "_", "I", "D", "]", "*", "/">>)

\* ([?&])([a-zA-Z_]+)=   the captured start of a query parameter, kept as $1$2=
ParamName == <<Exactly({"?", "&"}, 1), AtLeast(Alpha \cup {"_"}, 1), Ch("=")>>

\* /([?&])([a-zA-Z_]+)=[A-Fa-f0-9]{20,}/g
HexIdParam == Rule(ParamName, <<AtLeast(HexDigit, 20)>>, <<"[", "H", "E", "X", "_", "I", "D", "]">>)

\* /([?&])([a-zA-Z_]+)=[A-Za-z0-9]{15,}/g
LongIdParam == Rule(ParamName, <<AtLeast(AlNum, 15)>>, <<"[", "L", "O", "N", "G", "_", "I", "D", "]">>)

\* /([?&])([a-zA-Z_]+)=\d{5,}/g
NumParam == Rule(ParamName, <<AtLeast(Digit, 5)>>, <<"[", "N", "U", "M", "_", "P", "A", "R", "A", "M", "]">>)

\* /([?&])([a-zA-Z_]+)=%[0-9A-Fa-f]{2,}[^\s&]*/g
EncodedParam ==
    Rule(ParamName,
         <<Ch("%"), AtLeast(HexDigit, 2), Not(Space \cup {"&"}, 0, 0)>>,
         <<"[", "E", "N", "C", "O", "D", "E", "D", "_", "P", "A", "R", "A", "M", "]">>)

\* (?=[&\s]|$)
ValueEnd == LookAhead(<<Alt(<<<<Exactly(Space \cup {"&"}, 1)>>, <<EOL>>>>)>>)

\* /([?&])([a-zA-Z_]+)=(?!(?:true|false|1|0|yes|no)(?=[&\s]|$))([A-Za-z0-9_-]+)(?=[&\s]|$)/g
QueryValue ==
    Rule(ParamName,
         <<NotLookAhead(<<Alt(<<Lit(<<"t", "r", "u", "e">>), Lit(<<"f", "a", "l", "s", "e">>), Lit(<<"1">>), Lit(<<"0">>), Lit(<<"y", "e", "s">>), Lit(<<"n", "o">>)>>), ValueEnd>>),
           AtLeast(AlNum \cup {"_", "-"}, 1), ValueEnd>>,
         <<"[", "Q", "U", "E", "R", "Y", "_", "V", "A", "L", "U", "E", "]">>)

\* /(https?:\/\/[^\s?]+)\?[^\s]+/g -> $1?[QUERY_PARAMS]
QueryString ==
    Rule(Lit(<<"h", "t", "t", "p">>) \o <<Between({"s"}, 0, 1), Ch(":"), Ch("/"), Ch("/"),
                           Not(Space \cup {"?"}, 1, 0)>>,
         <<Ch("?"), Not(Space, 1, 0)>>,
         <<"?", "[", "Q", "U", "E", "R", "Y", "_", "P", "A", "R", "A", "M", "S", "]">>)

\* /[A-Za-z0-9_$\[\];.]+@[0-9a-fA-F]{4,}\b/g
ObjectRef ==
    Rule(<<>>,
         <<AtLeast(AlNum \cup {"_", "$", "[", "]", ";", "."}, 1), Ch("@"),
           AtLeast(HexDigit, 4), WB>>,
         <<"[", "O", "B", "J", "E", "C", "T", "_", "R", "E", "F", "]">>)

\* /\b0x[0-9a-fA-F]+\b/g
HexValue == Rule(<<>>, <<WB, Ch("0"), Ch("x"), AtLeast(HexDigit, 1), WB>>, <<"[", "H", "E", "X", "]">>)

\* the long-digit rule placed before the case-id rule
NormalizeRulesIdFirst ==
    <<ParenIndex, BracketIndex, HttpDate, IsoDateTime, IsoDate, SlashDate, Uuid, JsonId,
      LongNumericId, CaseId, Email, IpAddress, WindowsPath, UnixPath, SessionId,
      HexIdParam, LongIdParam, NumParam, EncodedParam, QueryValue, QueryString,
      ObjectRef, HexValue>>

NormalizeRules ==
    <<ParenIndex, BracketIndex, HttpDate, IsoDateTime, IsoDate, SlashDate, Uuid, JsonId,
      CaseId, LongNumericId, Email, IpAddress, WindowsPath, UnixPath, SessionId,
      HexIdParam, LongIdParam, NumParam, EncodedParam, QueryValue, QueryString,
      ObjectRef, HexValue>>

RECURSIVE ApplyRules(_, _, _)
\* normalized = normalized.replace(...), one rule after the other
ApplyRules(rules, k, s) ==
    IF k > Len(rules) THEN s
    ELSE LET r == ReplaceAll(rules[k], s)
         IN IF Len(r) = 0 THEN r ELSE ApplyRules(rules, k + 1, r)

(***************************************************************************)
(* A JavaScript value handed to normalizeErrorPattern: a string, null or   *)
(* undefined.                                                              *)
(***************************************************************************)
JsString(s) == [type |-> "string", s |-> s]

JsNull == [type |-> "null"]

JsUndefined == [type |-> "undefined"]

\* !message
IsFalsy(v) == v.type # "string" \/ v.s = <<>>

\* the guard returning String(message): "null", "undefined" or ""
normalizeStringifies(message) ==
    IF IsFalsy(message) \/ message.type # "string"
    THEN IF message.type = "null" THEN <<"n", "u", "l", "l">>
         ELSE IF message.type = "undefined" THEN <<"u", "n", "d", "e", "f", "i", "n", "e", "d">>
         ELSE <<>>
    ELSE ApplyRules(NormalizeRules, 1, message.s)

normalizeErrorPattern(message) ==
    IF IsFalsy(message) \/ message.type # "string"
    THEN <<>>                                  \* return message || ''
    ELSE ApplyRules(NormalizeRules, 1, message.s)

(***************************************************************************)
(* Waterfall classifier.  The fields of a log record are a function from   *)
(* the names of the fields it has to their text.                           *)
(***************************************************************************)
FieldNames == {"exceptionClass", "ruleName", "ruleType", "loggerName", "message"}

Has(f, name) == name \in DOMAIN f

\* the message handed to the normalizer: the text, or null when the record has none
MessageOf(f) == IF Has(f, "message") THEN JsString(f.message) ELSE JsNull

Levels == {"RuleFailure", "LoggerPattern", "Unclassified"}

\* Level 1 (Gold): the record has exceptionClass, ruleName and ruleType
IsRuleFailure(f) == Has(f, "exceptionClass") /\ Has(f, "ruleName") /\ Has(f, "ruleType")

\* Level 2 (Silver): loggerName and a non-empty message are present
IsLoggerPattern(f) == Has(f, "loggerName") /\ Has(f, "message") /\ f.message # <<>>

\* the waterfall with its first two levels exchanged
ClassifyLoggerFirst(f) ==
    IF IsLoggerPattern(f)
    THEN [level |-> "LoggerPattern",
          inputs |-> <<normalizeErrorPattern(MessageOf(f)), f.loggerName>>]
    ELSE IF IsRuleFailure(f)
    THEN [level |-> "RuleFailure",
          inputs |-> <<f.exceptionClass, f.ruleName, f.ruleType>>]
    ELSE [level |-> "Unclassified",
          inputs |-> <<normalizeErrorPattern(MessageOf(f))>>]

\* the levels in priority order, the first match wins; the fingerprint inputs of the level
Classify(f) ==
    IF IsRuleFailure(f)
    THEN [level |-> "RuleFailure",
          inputs |-> <<f.exceptionClass, f.ruleName, f.ruleType>>]
    ELSE IF IsLoggerPattern(f)
    THEN [level |-> "LoggerPattern",
          inputs |-> <<normalizeErrorPattern(MessageOf(f)), f.loggerName>>]
    ELSE [level |-> "Unclassified",
          inputs |-> <<normalizeErrorPattern(MessageOf(f))>>]

(***************************************************************************)
(* Fingerprint generator: the fields joined with the separator, hashed.    *)
(***************************************************************************)
Separator == <<" ", "|", " ">>

RECURSIVE Join(_, _)
Join(fields, k) ==
    IF k > Len(fields) THEN <<>>
    ELSE IF k = Len(fields) THEN fields[k]
    ELSE fields[k] \o Separator \o Join(fields, k + 1)

\* "<exceptionClass> | <ruleName> | <ruleType>"
Signature(c) == Join(c.inputs, 1)

\* the content hash, as the digest of its input: equal inputs give equal digests, and
\* different inputs are taken to give different digests
MD5(s) == [md5 |-> s]

\* a digest salted by the process that computes it
FingerprintSalted(c) == [md5 |-> Join(c.inputs, 1), salt |-> passes]

Fingerprint(c) == MD5(Join(c.inputs, 1))

(***************************************************************************)
(* Group store.  An ErrorGroup document is keyed by its fingerprint.  The  *)
(* page's aggregate is upserted: the count is incremented, first_seen is   *)
(* set only when the group is created, last_seen is overwritten, and the   *)
(* sample references are appended up to the cap.                           *)
(***************************************************************************)
\* sample cap per group
SampleCap == 2

\* records per page
PageSize == 2

EmptyMap == [x \in {} |-> x]

\* an append that does not look at the cap
AppendAll(refs, new) == refs \o new

\* append the new references while the cap is not reached
CapAppend(refs, new) ==
    LET all == refs \o new
    IN SubSeq(all, 1, IF Len(all) < SampleCap THEN Len(all) ELSE SampleCap)

\* the document of a group that is created: diagnosis status PENDING
NewGroup(d) ==
    [group_type |-> d.level, group_signature |-> d.signature, count |-> d.count,
     first_seen |-> d.firstSeen, last_seen |-> d.lastSeen,
     example_logs |-> CapAppend(<<>>, d.refs), status |-> "PENDING",
     report |-> "null", comments |-> "", assigned_user |-> "null"]

\* an update that also sets the status of the group it finds, as for a new group
UpdateGroupAsNew(g, d) ==
    [g EXCEPT !.count = @ + d.count,
              !.last_seen = d.lastSeen,
              !.example_logs = CapAppend(@, d.refs),
              !.status = "PENDING"]

\* the additive update of a group that exists
UpdateGroup(g, d) ==
    [g EXCEPT !.count = @ + d.count,
              !.last_seen = d.lastSeen,
              !.example_logs = CapAppend(@, d.refs)]

\* one batch write of the page's deltas
Upsert(store, deltas) ==
    [fp \in DOMAIN store \cup DOMAIN deltas |->
        IF fp \notin DOMAIN deltas THEN store[fp]
        ELSE IF fp \in DOMAIN store THEN UpdateGroup(store[fp], deltas[fp])
        ELSE NewGroup(deltas[fp])]

(***************************************************************************)
(* Batch scanner / writer.  A source record is [id, ts, f]: the id the     *)
(* ingestion assigned, the timestamp and the fields.                       *)
(***************************************************************************)
\* the number of records in the source store
MaxRecords == 3

\* the number of passes
MaxPasses == 2

\* the number of store failures and interruptions
MaxFaults == 1

\* the "beginning of time" sentinel of load()
BeginningOfTime == 0

Restrict(f, D) == [n \in D |-> f[n]]

AllFields(message) ==
    [exceptionClass |-> <<"N", "P", "E">>, ruleName |-> <<"T", "a", "x">>, ruleType |-> <<"A", "c", "t">>,
     loggerName |-> <<"D", "B">>, message |-> message]

MessageA == <<"e", " ", "2", "0", "2", "5", "-", "0", "1", "-", "0", "1">>

\* MessageA at another date
MessageB == <<"e", " ", "2", "0", "2", "5", "-", "0", "1", "-", "0", "2">>

MessageC == <<"C", "O", "-", "1", "2", " ", "f">>

\* the record shapes of the source store: a rule failure that also has a logger and a
\* message, two logger records that differ only in a date, and a record with no field
BatchRecords ==
    {AllFields(MessageA),
     Restrict(AllFields(MessageA), {"loggerName", "message"}),
     Restrict(AllFields(MessageB), {"loggerName", "message"}),
     Restrict(AllFields(MessageA), {})}

\* timestamps do not decrease along the source; two records may share one
Timestamps ==
    {T \in [1..MaxRecords -> 1..MaxRecords] :
        /\ T[1] = 1
        /\ \A i \in 1..(MaxRecords - 1) : T[i + 1] \in {T[i], T[i] + 1}}

Sources ==
    {[i \in 1..MaxRecords |-> [id |-> i, ts |-> T[i], f |-> F[i]]] :
        T \in Timestamps, F \in [1..MaxRecords -> BatchRecords]}

\* "e"
MessageE == <<"e">>

\* "e | DB": the text a logger record of message "e" and logger "DB" is joined to
MessageJoined == MessageE \o Separator \o <<"D", "B">>

\* "NPE | Tax | Act": the signature of the rule failure of AllFields
MessageRule == <<"N", "P", "E">> \o Separator \o <<"T", "a", "x">> \o Separator \o <<"A", "c", "t">>

\* record shapes whose classification tuples differ pairwise: a rule failure, a logger
\* record, and records with a message only
TupleRecords ==
    {Restrict(AllFields(MessageE), {"exceptionClass", "ruleName", "ruleType"}),
     Restrict(AllFields(MessageE), {"loggerName", "message"}),
     Restrict(AllFields(MessageE), {"message"}),
     Restrict(AllFields(MessageJoined), {"message"}),
     Restrict(AllFields(MessageRule), {"message"})}

\* a source store of two such records
TupleSources ==
    {[i \in 1..2 |-> [id |-> i, ts |-> T[i], f |-> F[i]]] :
        T \in {<<1, 1>>, <<1, 2>>}, F \in [1..2 -> TupleRecords]}

\* Classify, tabulated over the record shapes of the source store
ClassOfShape == [f \in BatchRecords \cup TupleRecords |-> Classify(f)]

\* a record of the page, classified: the level, the signature, the fingerprint inputs
\* and the fingerprint
Classified(r) ==
    LET c == ClassOfShape[r.f]
    IN [id |-> r.id, ts |-> r.ts, level |-> c.level, signature |-> Signature(c),
        inputs |-> c.inputs, fp |-> Fingerprint(c)]

RECURSIVE Ascending(_)
\* the elements of a set of numbers, in ascending order
Ascending(S) == IF S = {} THEN <<>> ELSE <<Min(S)>> \o Ascending(S \ {Min(S)})

\* an aggregation that skips the records no level matched
AggregateClassifiedOnly(pg) ==
    [fp \in {pg[k].fp : k \in {j \in DOMAIN pg : pg[j].level # "Unclassified"}} |->
        LET mine == {k \in DOMAIN pg : pg[k].fp = fp}
        IN [level |-> pg[Min(mine)].level, signature |-> pg[Min(mine)].signature,
            count |-> Cardinality(mine),
            firstSeen |-> pg[Min(mine)].ts, lastSeen |-> pg[Max(mine)].ts,
            refs |-> [k \in 1..Cardinality(mine) |-> pg[Ascending(mine)[k]].id]]]

\* the in-memory aggregation of a classified page:
\* fingerprint -> count delta, first_seen and last_seen candidates, new sample references
Aggregate(pg) ==
    [fp \in {pg[k].fp : k \in DOMAIN pg} |->
        LET mine == {k \in DOMAIN pg : pg[k].fp = fp}
        IN [level |-> pg[Min(mine)].level, signature |-> pg[Min(mine)].signature,
            count |-> Cardinality(mine),
            firstSeen |-> pg[Min(mine)].ts, lastSeen |-> pg[Max(mine)].ts,
            refs |-> [k \in 1..Cardinality(mine) |-> pg[Ascending(mine)[k]].id]]]

\* the cursor resumes strictly after the checkpoint: it passes every record whose
\* timestamp is at or before it
ResumePosition(src, cp) == Cardinality({i \in 1..Len(src) : src[i].ts <= cp})

InitBatch ==
    /\ source \in Sources
    /\ checkpoint = BeginningOfTime
    /\ groups = EmptyMap
    /\ pc = "idle"
    /\ cursor = 0
    /\ page = <<>>
    /\ agg = EmptyMap
    /\ passes = 0
    /\ faults = 0
    /\ flushedTimes = [i \in 1..MaxRecords |-> 0]
    /\ groupsAtPassStart = EmptyMap
    /\ groupsAtPageStart = EmptyMap
    /\ cpAtPageStart = BeginningOfTime
    /\ lastFault = "none"
    /\ faultKinds = {}
    /\ assigned = {}

\* a pass starts: load() the checkpoint, once, and open the cursor after it
StartPass ==
    /\ pc \in {"idle", "done", "aborted"}
    /\ passes < MaxPasses
    /\ passes' = passes + 1
    /\ cursor' = ResumePosition(source, checkpoint)
    /\ pc' = "scan"
    /\ page' = <<>>
    /\ agg' = EmptyMap
    /\ groupsAtPassStart' = groups
    /\ groupsAtPageStart' = groups
    /\ cpAtPageStart' = checkpoint
    /\ lastFault' = "none"
    /\ UNCHANGED <<source, checkpoint, groups, faults, flushedTimes, faultKinds, assigned>>
    /\ UNCHANGED <<normVars, classVars, uiVars, applyVars, frontVars>>

\* read the next page, classify its records and aggregate them per fingerprint
ReadPage ==
    /\ pc = "scan"
    /\ cursor < Len(source)
    /\ LET n == IF cursor + PageSize < Len(source) THEN PageSize
                ELSE Len(source) - cursor
       IN page' = [k \in 1..n |-> Classified(source[cursor + k])]
    /\ agg' = Aggregate(page')
    /\ pc' = "aggregated"
    /\ assigned' = assigned \cup {[level |-> page'[k].level, inputs |-> page'[k].inputs,
                                     fp |-> page'[k].fp] : k \in DOMAIN page'}
    /\ UNCHANGED <<source, checkpoint, groups, cursor, passes, faults>>
    /\ UNCHANGED <<flushedTimes, groupsAtPassStart, groupsAtPageStart, cpAtPageStart,
                   lastFault, faultKinds>>
    /\ UNCHANGED <<normVars, classVars, uiVars, applyVars, frontVars>>

\* the cursor is exhausted: the pass is complete
FinishPass ==
    /\ pc = "scan"
    /\ cursor = Len(source)
    /\ pc' = "done"
    /\ UNCHANGED <<source, checkpoint, groups, cursor, page, agg, passes, faults>>
    /\ UNCHANGED histVars
    /\ UNCHANGED <<normVars, classVars, uiVars, applyVars, frontVars>>

\* the source ids of the records of the page in hand
PageIds == {page[k].id : k \in DOMAIN page}

\* the page's deltas are upserted in one batch write, which the store confirms
FlushPage ==
    /\ pc = "aggregated"
    /\ groups' = Upsert(groups, agg)
    /\ pc' = "flushed"
    /\ flushedTimes' = [i \in 1..Len(source) |->
                           IF i \in PageIds THEN flushedTimes[i] + 1
                           ELSE flushedTimes[i]]
    /\ UNCHANGED <<source, checkpoint, cursor, page, agg, passes, faults>>
    /\ UNCHANGED <<groupsAtPassStart, groupsAtPageStart, cpAtPageStart, lastFault,
                   faultKinds, assigned>>
    /\ UNCHANGED <<normVars, classVars, uiVars, applyVars, frontVars>>

\* advance(): the checkpoint becomes the timestamp of the page's last record
AdvanceCheckpoint ==
    /\ pc = "flushed"
    /\ checkpoint' = page[Len(page)].ts
    /\ cursor' = cursor + Len(page)
    /\ pc' = "scan"
    /\ page' = <<>>
    /\ agg' = EmptyMap
    /\ groupsAtPageStart' = groups
    /\ cpAtPageStart' = checkpoint'
    /\ UNCHANGED <<source, groups, passes, faults>>
    /\ UNCHANGED <<flushedTimes, groupsAtPassStart, lastFault, faultKinds, assigned>>
    /\ UNCHANGED <<normVars, classVars, uiVars, applyVars, frontVars>>

\* a store failure aborts the pass
Abort(kind) ==
    /\ faults < MaxFaults
    /\ faults' = faults + 1
    /\ pc' = "aborted"
    /\ lastFault' = kind
    /\ faultKinds' = faultKinds \cup {kind}
    /\ UNCHANGED <<source, checkpoint, groups, cursor, page, agg, passes>>
    /\ UNCHANGED <<flushedTimes, groupsAtPassStart, groupsAtPageStart, cpAtPageStart,
                   assigned>>
    /\ UNCHANGED <<normVars, classVars, uiVars, applyVars, frontVars>>

\* the read of the next page fails
ReadFail ==
    /\ pc = "scan"
    /\ cursor < Len(source)
    /\ Abort("read")

\* a batch write that fails after its deltas were stored
FlushFailStored ==
    /\ pc = "aggregated"
    /\ faults < MaxFaults
    /\ faults' = faults + 1
    /\ groups' = Upsert(groups, agg)
    /\ pc' = "aborted"
    /\ lastFault' = "flush"
    /\ faultKinds' = faultKinds \cup {"flush"}
    /\ UNCHANGED <<source, checkpoint, cursor, page, agg, passes>>
    /\ UNCHANGED <<flushedTimes, groupsAtPassStart, groupsAtPageStart, cpAtPageStart,
                   assigned>>
    /\ UNCHANGED <<normVars, classVars, uiVars, applyVars, frontVars>>

\* the batch write fails: nothing of it is stored
FlushFail ==
    /\ pc = "aggregated"
    /\ Abort("flush")

\* the flush was confirmed, persisting the checkpoint fails
CheckpointFail ==
    /\ pc = "flushed"
    /\ Abort("checkpoint")

\* the process is interrupted: what it held in memory is lost
Interrupt ==
    /\ pc \in {"scan", "aggregated", "flushed"}
    /\ faults < MaxFaults
    /\ faults' = faults + 1
    /\ pc' = "idle"
    /\ cursor' = 0
    /\ page' = <<>>
    /\ agg' = EmptyMap
    /\ lastFault' = "interrupt"
    /\ faultKinds' = faultKinds \cup {IF pc = "flushed" THEN "interrupt_flushed"
                                      ELSE "interrupt"}
    /\ UNCHANGED <<source, checkpoint, groups, passes>>
    /\ UNCHANGED <<flushedTimes, groupsAtPassStart, groupsAtPageStart, cpAtPageStart,
                   assigned>>
    /\ UNCHANGED <<normVars, classVars, uiVars, applyVars, frontVars>>

NextBatch ==
    \/ StartPass
    \/ ReadPage
    \/ FinishPass
    \/ FlushPage
    \/ AdvanceCheckpoint
    \/ ReadFail
    \/ FlushFail
    \/ CheckpointFail
    \/ Interrupt

(***************************************************************************)
(* Classifier harness: a record is drawn from every combination of present *)
(* and absent fields, and classified.                                      *)
(***************************************************************************)
ClassifyInputs ==
    {Restrict(AllFields(m), D) : m \in {<<>>, MessageA, MessageC}, D \in SUBSET FieldNames}

NoClass == [level |-> "none", inputs |-> <<>>]

InitClassify ==
    /\ rec \in ClassifyInputs
    /\ cls = NoClass
    /\ cpc = "new"

ClassifyRecord ==
    /\ cpc = "new"
    /\ cls' = Classify(rec)
    /\ cpc' = "classified"
    /\ UNCHANGED rec
    /\ UNCHANGED <<normVars, batchVars, histVars, uiVars, applyVars, frontVars>>

NextClassify == ClassifyRecord

(***************************************************************************)
(* The parts of the state a harness does not use.                          *)
(***************************************************************************)
NormOff == msg = JsNull /\ out1 = <<>> /\ out2 = <<>> /\ npc = "off"

ClassifyOff == rec = EmptyMap /\ cls = NoClass /\ cpc = "off"

BatchOff ==
    /\ source = <<>>
    /\ checkpoint = BeginningOfTime
    /\ groups = EmptyMap
    /\ pc = "off"
    /\ cursor = 0
    /\ page = <<>>
    /\ agg = EmptyMap
    /\ passes = 0
    /\ faults = 0
    /\ flushedTimes = <<>>
    /\ groupsAtPassStart = EmptyMap
    /\ groupsAtPageStart = EmptyMap
    /\ cpAtPageStart = BeginningOfTime
    /\ lastFault = "none"
    /\ faultKinds = {}
    /\ assigned = {}

(***************************************************************************)
(* Operator UI and diagnosis worker.  The status selects of Dashboard,     *)
(* InspectionModal and GroupingStudio and the comment box of               *)
(* InspectionModal post a form to the update endpoints; the diagnosis      *)
(* worker polls the groups that are PENDING.                               *)
(***************************************************************************)
\* the number of writes the operator posts
MaxWrites == 1

\* the options of the status select of Dashboard and of InspectionModal
StatusOptions == {"PENDING", "IN PROCESS", "RESOLVED", "IGNORE", "DIAGNOSIS COMPLETED"}

\* the options of the status select of GroupingStudio
StudioStatusOptions ==
    {"PENDING", "IN PROCESS", "RESOLVED", "FALSE POSITIVE", "IGNORE", "COMPLETED"}

\* user?.displayName || user?.email || 'Unknown'
ActingUser == "operator"

\* what the operator may have typed into the comment box
CommentTexts == {"", "note"}

\* a status form that carries the count of the row as well
StatusFormWithCount(docId, newStatus) ==
    [doc_id |-> docId, status |-> newStatus, user |-> ActingUser, count |-> 0]

\* the FormData of handleStatusChange (Dashboard, InspectionModal)
StatusForm(docId, newStatus) ==
    [doc_id |-> docId, status |-> newStatus, user |-> ActingUser]

\* the FormData of the status select of GroupingStudio: no user
StudioStatusForm(docId, newStatus) == [doc_id |-> docId, status |-> newStatus]

\* the FormData of saveComments
CommentsForm(docId, comments) ==
    [doc_id |-> docId, comments |-> comments, user |-> ActingUser]

\* the update endpoints: the fields of the form, other than the id and the acting
\* user, are set in the document of that id
ApplyForm(store, form) ==
    IF form.doc_id \notin DOMAIN store THEN store
    ELSE [store EXCEPT ![form.doc_id] =
             [f \in DOMAIN store[form.doc_id] |->
                 IF f \in DOMAIN form \ {"doc_id", "user"} THEN form[f]
                 ELSE store[form.doc_id][f]]]

\* the operator UI posts the form and the endpoint applies it
Post(form) ==
    /\ writes < MaxWrites
    /\ writes' = writes + 1
    /\ lastWrite' = form
    /\ groups' = ApplyForm(groups, form)
    /\ UNCHANGED <<source, checkpoint, pc, cursor, page, agg, passes, faults>>
    /\ UNCHANGED <<histVars, lastDiag>>
    /\ UNCHANGED <<normVars, classVars, applyVars, frontVars>>

\* Dashboard: the status select of a row of the table
DashboardStatusChange ==
    \E docId \in DOMAIN groups, newStatus \in StatusOptions :
        Post(StatusForm(docId, newStatus))

\* InspectionModal: the status select of the group inspected
ModalStatusChange ==
    \E docId \in DOMAIN groups, newStatus \in StatusOptions :
        Post(StatusForm(docId, newStatus))

\* GroupingStudio: the status select of a row
StudioStatusChange ==
    \E docId \in DOMAIN groups, newStatus \in StudioStatusOptions :
        Post(StudioStatusForm(docId, newStatus))

\* InspectionModal: the comments are saved
SaveComments ==
    \E docId \in DOMAIN groups, comments \in CommentTexts :
        Post(CommentsForm(docId, comments))

\* a poll that takes every group, whatever its status
AllGroups(store) == DOMAIN store

\* the poll of the diagnosis worker: the groups whose status is PENDING
PendingGroups(store) == {fp \in DOMAIN store : store[fp].status = "PENDING"}

\* the diagnosis of a polled group succeeds: the report and the status are written
DiagnoseSuccess ==
    \E fp \in PendingGroups(groups) :
        /\ groups' = [groups EXCEPT ![fp].status = "DIAGNOSIS COMPLETED",
                                     ![fp].report = "report"]
        /\ lastDiag' = [doc_id |-> fp, found |-> groups[fp].status, outcome |-> "success"]
        /\ UNCHANGED <<source, checkpoint, pc, cursor, page, agg, passes, faults>>
        /\ UNCHANGED <<histVars, lastWrite, writes>>
        /\ UNCHANGED <<normVars, classVars, applyVars, frontVars>>

\* the diagnosis of a polled group fails: nothing is written
DiagnoseFailure ==
    \E fp \in PendingGroups(groups) :
        /\ lastDiag' = [doc_id |-> fp, found |-> groups[fp].status, outcome |-> "failure"]
        /\ UNCHANGED batchVars
        /\ UNCHANGED <<histVars, lastWrite, writes>>
        /\ UNCHANGED <<normVars, classVars, applyVars, frontVars>>

\* the source store of the shared group store: three records, rule failures and logger
\* records, at increasing timestamps
SharedSources ==
    {[i \in 1..3 |-> [id |-> i, ts |-> i, f |-> F[i]]] :
        F \in [1..3 -> {AllFields(MessageA),
                        Restrict(AllFields(MessageA), {"loggerName", "message"})}]}

NextShared ==
    \/ StartPass
    \/ ReadPage
    \/ FinishPass
    \/ FlushPage
    \/ AdvanceCheckpoint
    \/ DashboardStatusChange
    \/ ModalStatusChange
    \/ StudioStatusChange
    \/ SaveComments
    \/ DiagnoseSuccess
    \/ DiagnoseFailure

(***************************************************************************)
(* "Apply Rules Now".  Each browser session that shows GroupingStudio has  *)
(* its own isApplying state; applyChanges posts the apply request, and the *)
(* request resets the analysis index and re-processes all logs in a pass   *)
(* of its own over the shared source, checkpoint and group store.          *)
(***************************************************************************)
\* the number of browser sessions
MaxSessions == 2

Sessions == 1..MaxSessions

\* no request of the session is running
NoRun == [pc |-> "idle", cursor |-> 0, page |-> <<>>, agg |-> EmptyMap]

\* the button is enabled, the operator clicks and confirms: setIsApplying(true), the
\* request is posted
ApplyClick(s) ==
    /\ ~isApplying[s]
    /\ isApplying' = [isApplying EXCEPT ![s] = TRUE]
    /\ applyRun' = [applyRun EXCEPT ![s].pc = "posted"]
    /\ UNCHANGED <<batchVars, histVars>>
    /\ UNCHANGED <<normVars, classVars, uiVars, frontVars>>

\* the request arrives: the index is reset and the pass opens its cursor
ApplyStart(s) ==
    /\ applyRun[s].pc = "posted"
    /\ groups' = EmptyMap
    /\ checkpoint' = BeginningOfTime
    /\ applyRun' = [applyRun EXCEPT ![s].pc = "scan",
                                     ![s].cursor = ResumePosition(source, BeginningOfTime)]
    /\ UNCHANGED <<source, pc, cursor, page, agg, passes, faults, isApplying>>
    /\ UNCHANGED histVars
    /\ UNCHANGED <<normVars, classVars, uiVars, frontVars>>

\* the pass of the request reads its next page
ApplyRead(s) ==
    /\ applyRun[s].pc = "scan"
    /\ applyRun[s].cursor < Len(source)
    /\ LET c == applyRun[s].cursor
           n == IF c + PageSize < Len(source) THEN PageSize ELSE Len(source) - c
           pg == [k \in 1..n |-> Classified(source[c + k])]
       IN applyRun' = [applyRun EXCEPT ![s].pc = "aggregated",
                                       ![s].page = pg,
                                       ![s].agg = Aggregate(pg)]
    /\ UNCHANGED <<batchVars, histVars, isApplying>>
    /\ UNCHANGED <<normVars, classVars, uiVars, frontVars>>

\* the pass of the request flushes its page
ApplyFlush(s) ==
    /\ applyRun[s].pc = "aggregated"
    /\ groups' = Upsert(groups, applyRun[s].agg)
    /\ applyRun' = [applyRun EXCEPT ![s].pc = "flushed"]
    /\ UNCHANGED <<source, checkpoint, pc, cursor, page, agg, passes, faults, isApplying>>
    /\ UNCHANGED histVars
    /\ UNCHANGED <<normVars, classVars, uiVars, frontVars>>

\* the pass of the request advances the checkpoint
ApplyAdvance(s) ==
    /\ applyRun[s].pc = "flushed"
    /\ checkpoint' = applyRun[s].page[Len(applyRun[s].page)].ts
    /\ applyRun' = [applyRun EXCEPT ![s].pc = "scan",
                                     ![s].cursor = @ + Len(applyRun[s].page),
                                     ![s].page = <<>>,
                                     ![s].agg = EmptyMap]
    /\ UNCHANGED <<source, groups, pc, cursor, page, agg, passes, faults, isApplying>>
    /\ UNCHANGED histVars
    /\ UNCHANGED <<normVars, classVars, uiVars, frontVars>>

\* the pass is complete, the response arrives: finally setIsApplying(false)
ApplyDone(s) ==
    /\ applyRun[s].pc = "scan"
    /\ applyRun[s].cursor = Len(source)
    /\ applyRun' = [applyRun EXCEPT ![s] = NoRun]
    /\ isApplying' = [isApplying EXCEPT ![s] = FALSE]
    /\ UNCHANGED <<batchVars, histVars>>
    /\ UNCHANGED <<normVars, classVars, uiVars, frontVars>>

NextApply ==
    \/ \E s \in Sessions : ApplyClick(s)
    \/ \E s \in Sessions : ApplyStart(s)
    \/ \E s \in Sessions : ApplyRead(s)
    \/ \E s \in Sessions : ApplyFlush(s)
    \/ \E s \in Sessions : ApplyAdvance(s)
    \/ \E s \in Sessions : ApplyDone(s)

\* no write posted, no diagnosis run
UiOff == lastWrite = EmptyMap /\ writes = 0 /\ lastDiag = EmptyMap

ApplyOff == isApplying = <<>> /\ applyRun = <<>>

vars == <<normVars, classVars, batchVars, histVars, uiVars, applyVars, frontVars>>

\* the batch scanner over a source store of two records of TupleRecords
InitTuplesOnly ==
    /\ source \in TupleSources
    /\ checkpoint = BeginningOfTime
    /\ groups = EmptyMap
    /\ pc = "idle"
    /\ cursor = 0
    /\ page = <<>>
    /\ agg = EmptyMap
    /\ passes = 0
    /\ faults = 0
    /\ flushedTimes = [i \in 1..2 |-> 0]
    /\ groupsAtPassStart = EmptyMap
    /\ groupsAtPageStart = EmptyMap
    /\ cpAtPageStart = BeginningOfTime
    /\ lastFault = "none"
    /\ faultKinds = {}
    /\ assigned = {}
    /\ NormOff
    /\ ClassifyOff
    /\ UiOff
    /\ ApplyOff
    /\ FrontOff

SpecTuples == InitTuplesOnly /\ [][NextBatch]_vars

\* the ingestion, the operator UI and the diagnosis worker on one group store
InitSharedOnly ==
    /\ source \in SharedSources
    /\ checkpoint = BeginningOfTime
    /\ groups = EmptyMap
    /\ pc = "idle"
    /\ cursor = 0
    /\ page = <<>>
    /\ agg = EmptyMap
    /\ passes = 0
    /\ faults = 0
    /\ flushedTimes = [i \in 1..3 |-> 0]
    /\ groupsAtPassStart = EmptyMap
    /\ groupsAtPageStart = EmptyMap
    /\ cpAtPageStart = BeginningOfTime
    /\ lastFault = "none"
    /\ faultKinds = {}
    /\ assigned = {}
    /\ UiOff
    /\ NormOff
    /\ ClassifyOff
    /\ ApplyOff
    /\ FrontOff

SpecShared == InitSharedOnly /\ [][NextShared]_vars

\* the sessions of GroupingStudio on one source, checkpoint and group store
InitApplyOnly ==
    /\ source \in SharedSources
    /\ checkpoint = BeginningOfTime
    /\ groups = EmptyMap
    /\ pc = "off"
    /\ cursor = 0
    /\ page = <<>>
    /\ agg = EmptyMap
    /\ passes = 0
    /\ faults = 0
    /\ flushedTimes = <<>>
    /\ groupsAtPassStart = EmptyMap
    /\ groupsAtPageStart = EmptyMap
    /\ cpAtPageStart = BeginningOfTime
    /\ lastFault = "none"
    /\ faultKinds = {}
    /\ assigned = {}
    /\ isApplying = [s \in Sessions |-> FALSE]
    /\ applyRun = [s \in Sessions |-> NoRun]
    /\ UiOff
    /\ NormOff
    /\ ClassifyOff
    /\ FrontOff

SpecApply == InitApplyOnly /\ [][NextApply]_vars

InitBatchOnly == InitBatch /\ NormOff /\ ClassifyOff /\ UiOff /\ ApplyOff /\ FrontOff

SpecBatch == InitBatchOnly /\ [][NextBatch]_vars

InitClassifyOnly == InitClassify /\ NormOff /\ BatchOff /\ UiOff /\ ApplyOff /\ FrontOff

SpecClassify == InitClassifyOnly /\ [][NextClassify]_vars

(***************************************************************************)
(* Normalizer harness: a message is drawn from the bounded set of inputs,  *)
(* normalizeErrorPattern is applied to it, and then to its own result.     *)
(***************************************************************************)
\* the longest input is a concatenation of MaxFrags fragments
MaxFrags == 2

\* volatile and fixed parts of log messages
Fragments ==
    {<<"1", "2", "3", "4", "5", "6">>,
     <<"C", ":", "\\", "d">>,
     <<"2", "0", "2", "5", "-", "0", "1", "-", "0", "1">>,
     <<"T", "1", "0", ":", "0", "0", ":", "0", "0">>,
     <<"C", "O", "-", "1", "2">>,
     <<" ", "a", "t", " ">>,
     <<"e">>,
     <<"/", "a", "b">>,
     <<"?", "a", "=", "b">>,
     <<"0", "x", "1", "A">>}

RECURSIVE Concat(_, _)
Concat(fs, k) == IF k > Len(fs) THEN <<>> ELSE fs[k] \o Concat(fs, k + 1)

NormInputs ==
    {JsNull, JsUndefined, JsString(<<>>)}
    \cup {JsString(Concat(fs, 1)) : fs \in UNION {[1..n -> Fragments] : n \in 1..MaxFrags}}

InitNorm ==
    /\ msg \in NormInputs
    /\ out1 = <<>>
    /\ out2 = <<>>
    /\ npc = "new"

\* const once = normalizeErrorPattern(message)
NormalizeOnce ==
    /\ npc = "new"
    /\ out1' = normalizeErrorPattern(msg)
    /\ npc' = "once"
    /\ UNCHANGED <<msg, out2>>
    /\ UNCHANGED <<classVars, batchVars, histVars, uiVars, applyVars, frontVars>>

\* const twice = normalizeErrorPattern(once)
NormalizeAgain ==
    /\ npc = "once"
    /\ out2' = normalizeErrorPattern(JsString(out1))
    /\ npc' = "twice"
    /\ UNCHANGED <<msg, out1>>
    /\ UNCHANGED <<classVars, batchVars, histVars, uiVars, applyVars, frontVars>>

NextNorm == NormalizeOnce \/ NormalizeAgain

InitNormOnly == InitNorm /\ ClassifyOff /\ BatchOff /\ UiOff /\ ApplyOff /\ FrontOff

SpecNorm == InitNormOnly /\ [][NextNorm]_vars

(***************************************************************************)
(* Normalizer harness for pairs: two messages that differ only in volatile *)
(* values are normalized, one after the other.                             *)
(***************************************************************************)
\* ISO 8601 timestamps: with seconds, with a fraction and Z, with an offset, with a
\* decimal comma, and to the minute
IsoTimestamps ==
    {<<"2", "0", "2", "5", "-", "0", "1", "-", "0", "1", "T", "1", "0", ":", "0", "0", ":", "0", "0">>,
     <<"2", "0", "2", "5", "-", "0", "1", "-", "0", "2", "T", "1", "1", ":", "3", "0", ":", "4", "5", ".", "1", "2", "3", "Z">>,
     <<"2", "0", "2", "5", "-", "0", "1", "-", "0", "1", "T", "1", "0", ":", "0", "0", ":", "0", "0", "+", "0", "5", ":", "3", "0">>,
     <<"2", "0", "2", "5", "-", "0", "1", "-", "0", "1", "T", "1", "0", ":", "0", "0", ":", "0", "0", ",", "1", "2", "3">>,
     <<"2", "0", "2", "5", "-", "0", "1", "-", "0", "1", "T", "1", "0", ":", "0", "1">>}

\* standalone integers of 6 and of 7 digits
LongIntegers == {<<"1", "2", "3", "4", "5", "6">>, <<"7", "6", "5", "4", "3", "2", "1">>}

\* "e <timestamp> id <integer>"
MessageWithId(ts, n) == <<"e", " ">> \o ts \o <<" ", "i", "d", " ">> \o n

\* "at <timestamp>: <integer> f"
MessageAtTime(ts, n) == <<"a", "t", " ">> \o ts \o <<":", " ">> \o n \o <<" ", "f">>

ClockTimes == {<<"1", "0", ":", "0", "0">>, <<"1", "0", ":", "0", "1">>, <<"2", "3", ":", "5", "9", ":", "5", "9">>}

\* "Error at <clock time>"
MessageAtClock(c) == <<"E", "r", "r", "o", "r", " ", "a", "t", " ">> \o c

\* "Error at [DATE]"
ErrorAtDate == <<"E", "r", "r", "o", "r", " ", "a", "t", " ", "[", "D", "A", "T", "E", "]">>

PairInputs ==
    {[kind |-> "timestamp_id", a |-> MessageWithId(t1, n1), b |-> MessageWithId(t2, n2)] :
        t1 \in IsoTimestamps, t2 \in IsoTimestamps, n1 \in LongIntegers, n2 \in LongIntegers}
    \cup
    {[kind |-> "timestamp_id", a |-> MessageAtTime(t1, n1), b |-> MessageAtTime(t2, n2)] :
        t1 \in IsoTimestamps, t2 \in IsoTimestamps, n1 \in LongIntegers, n2 \in LongIntegers}
    \cup
    {[kind |-> "clock", a |-> MessageAtClock(c1), b |-> MessageAtClock(c2)] :
        c1 \in ClockTimes, c2 \in ClockTimes}

NormalizeFirst ==
    /\ npc = "pair"
    /\ out1' = normalizeErrorPattern(JsString(msg.a))
    /\ npc' = "first"
    /\ UNCHANGED <<msg, out2>>
    /\ UNCHANGED <<classVars, batchVars, histVars, uiVars, applyVars, frontVars>>

NormalizeSecond ==
    /\ npc = "first"
    /\ out2' = normalizeErrorPattern(JsString(msg.b))
    /\ npc' = "both"
    /\ UNCHANGED <<msg, out1>>
    /\ UNCHANGED <<classVars, batchVars, histVars, uiVars, applyVars, frontVars>>

NextPairs == NormalizeFirst \/ NormalizeSecond

InitPairsOnly ==
    /\ msg \in PairInputs
    /\ out1 = <<>>
    /\ out2 = <<>>
    /\ npc = "pair"
    /\ ClassifyOff
    /\ BatchOff
    /\ UiOff
    /\ ApplyOff
    /\ FrontOff

SpecPairs == InitPairsOnly /\ [][NextPairs]_vars

(***************************************************************************)
(* Normalizer harness for case identifiers: a token of uppercase letters,  *)
(* a hyphen and digits, alone or between other words.                      *)
(***************************************************************************)
CasePrefixes == {<<"C">>, <<"C", "O">>, <<"T">>, <<"A", "B", "C">>}

CaseNumbers == {<<"1">>, <<"1", "9", "5", "7", "7">>, <<"1", "2", "3", "4", "5", "6">>, <<"1", "2", "3", "4", "5", "6", "7">>}

CaseToken(p, n) == p \o <<"-">> \o n

CaseTokens == {CaseToken(p, n) : p \in CasePrefixes, n \in CaseNumbers}

\* the text before and the text after the token
CaseContexts ==
    {[pre |-> pre, post |-> post] :
        pre \in {<<>>, <<"e", " ">>, <<"i", "d", " ">>},
        post \in {<<>>, <<" ", "f">>, <<".">>}}

InContext(ctx, tok) == ctx.pre \o tok \o ctx.post

CaseInputs == {JsString(InContext(ctx, tok)) : ctx \in CaseContexts, tok \in CaseTokens}

PhCaseId == <<"[", "C", "A", "S", "E", "_", "I", "D", "]">>

PhId == <<"[", "I", "D", "]">>

\* s.includes(sub)
Includes(s, sub) ==
    \E i \in 1..(Len(s) - Len(sub) + 1) : SubSeq(s, i, i + Len(sub) - 1) = sub

InitCaseOnly ==
    /\ msg \in CaseInputs
    /\ out1 = <<>>
    /\ out2 = <<>>
    /\ npc = "new"
    /\ ClassifyOff
    /\ BatchOff
    /\ UiOff
    /\ ApplyOff
    /\ FrontOff

SpecCase == InitCaseOnly /\ [][NextNorm]_vars

(***************************************************************************)
(* Normalizer harness for URLs: an http(s) URL with a query string, alone  *)
(* or between other words.                                                 *)
(***************************************************************************)
UrlBases ==
    {<<"h", "t", "t", "p", ":", "/", "/", "h", ".", "i", "o">>,
     <<"h", "t", "t", "p", "s", ":", "/", "/", "a", ".", "b", "/", "c">>,
     <<"h", "t", "t", "p", "s", ":", "/", "/", "e", "x", "a", "m", "p", "l", "e", ".", "c", "o", "m", "/", "a", "p", "i", "/", "x">>}

QueryStrings ==
    {<<"x", "=", "1">>,
     <<"d", "e", "b", "u", "g", "=", "t", "r", "u", "e">>,
     <<"i", "d", "=", "a", "b", "c">>,
     <<"a", "=", "b", "&", "c", "=", "1", "2", "3", "4", "5">>,
     <<"q", "=", "%", "2", "0", "x">>,
     <<"k">>}

UrlWithQuery(u, q) == u \o <<"?">> \o q

UrlContexts ==
    {[pre |-> pre, post |-> post] :
        pre \in {<<>>, <<"G", "E", "T", " ">>},
        post \in {<<>>, <<" ", "f", "a", "i", "l", "e", "d">>}}

UrlInputs ==
    {JsString(InContext(ctx, UrlWithQuery(u, q))) :
        ctx \in UrlContexts, u \in UrlBases, q \in QueryStrings}

PhQueryParams == <<"[", "Q", "U", "E", "R", "Y", "_", "P", "A", "R", "A", "M", "S", "]">>

InitUrlOnly ==
    /\ msg \in UrlInputs
    /\ out1 = <<>>
    /\ out2 = <<>>
    /\ npc = "new"
    /\ ClassifyOff
    /\ BatchOff
    /\ UiOff
    /\ ApplyOff
    /\ FrontOff

SpecUrl == InitUrlOnly /\ [][NextNorm]_vars

(***************************************************************************)
(* App: authentication and routing.  The auth context (loading, user) is   *)
(* set by the auth state callback; the router renders the element of the   *)
(* current location, and <Navigate> and Login's effect change the location.*)
(***************************************************************************)
MaxHistory == 3

MaxHops == 3

\* "/x" stands for every path other than /login and /
Paths == {"/login", "/", "/x"}

Pages == {"dashboard", "chat", "upload", "grouping"}

Location == history[Len(history)]

\* navigate(to): a new entry; the oldest entry is dropped from a full stack
Push(h, to) == IF Len(h) < MaxHistory THEN Append(h, to) ELSE Append(Tail(h), to)

\* navigate(to, { replace: true })
Replace(h, to) == [h EXCEPT ![Len(h)] = to]

\* a ProtectedRoute without the check of the user
ProtectedRouteOpen(loading, user) ==
    IF loading THEN "Loading" ELSE "Outlet"

ProtectedRoute(loading, user) ==
    IF loading THEN "Loading"
    ELSE IF ~user THEN "NavigateLogin"
    ELSE "Outlet"

\* the element App renders: "Loading", "Login", "Outlet" (Layout with the four
\* pages), "NavigateLogin" or "NavigateRoot"
App(loading, user, path) ==
    IF loading THEN "Loading"
    ELSE IF path = "/login" THEN "Login"
    ELSE IF path = "/" THEN ProtectedRoute(loading, user)
    ELSE "NavigateRoot"

Screen == App(authLoading, authUser, Location)

InitRoute ==
    /\ authLoading = TRUE
    /\ authUser = FALSE
    /\ history \in {<<p>> : p \in Paths}
    /\ activePage = "dashboard"
    /\ hops = 0
    /\ pendingAuth = FALSE
    /\ pendingNav = FALSE

\* the first auth state callback: setUser(u); setLoading(false)
AuthResolved ==
    /\ authLoading
    /\ \E u \in BOOLEAN : authUser' = u
    /\ authLoading' = FALSE
    /\ hops' = 0
    /\ UNCHANGED <<history, activePage, pendingAuth, pendingNav>>
    /\ UNCHANGED notRoute

\* handleLogin: signInWithEmailAndPassword resolves
HandleLogin ==
    /\ Screen = "Login"
    /\ ~authUser
    /\ ~pendingAuth
    /\ ~pendingNav
    /\ pendingAuth' = TRUE
    /\ pendingNav' = TRUE
    /\ hops' = 0
    /\ UNCHANGED <<authLoading, authUser, history, activePage>>
    /\ UNCHANGED notRoute

\* the auth state callback after a sign-in: setUser(user)
AuthStateChanged ==
    /\ pendingAuth
    /\ authUser' = TRUE
    /\ pendingAuth' = FALSE
    /\ hops' = 0
    /\ UNCHANGED <<authLoading, history, activePage, pendingNav>>
    /\ UNCHANGED notRoute

\* handleLogin after the await: onLoginSuccess(); navigate('/')
LoginNavigate ==
    /\ pendingNav
    /\ history' = Push(history, "/")
    /\ pendingNav' = FALSE
    /\ hops' = 0
    /\ UNCHANGED <<authLoading, authUser, activePage, pendingAuth>>
    /\ UNCHANGED notRoute

\* Layout's logout button: auth.signOut(), and the auth state callback
Logout ==
    /\ Screen = "Outlet"
    /\ authUser' = FALSE
    /\ hops' = 0
    /\ UNCHANGED <<authLoading, history, activePage, pendingAuth, pendingNav>>
    /\ UNCHANGED notRoute

\* Layout's menu: onPageChange(item.id)
SetActivePage ==
    /\ Screen = "Outlet"
    /\ \E p \in Pages : activePage' = p
    /\ hops' = 0
    /\ UNCHANGED <<authLoading, authUser, history, pendingAuth, pendingNav>>
    /\ UNCHANGED notRoute

\* the user follows a link to a path
UserNavigates ==
    /\ \E p \in Paths : history' = Push(history, p)
    /\ hops' = 0
    /\ UNCHANGED <<authLoading, authUser, activePage, pendingAuth, pendingNav>>
    /\ UNCHANGED notRoute

\* the browser's back button
Back ==
    /\ Len(history) > 1
    /\ history' = SubSeq(history, 1, Len(history) - 1)
    /\ hops' = 0
    /\ UNCHANGED <<authLoading, authUser, activePage, pendingAuth, pendingNav>>
    /\ UNCHANGED notRoute

\* <Navigate to="/login" replace />, <Navigate to="/" replace />, and Login's
\* effect: if (user) navigate('/')
Redirect ==
    /\ hops < MaxHops
    /\ \/ Screen = "NavigateLogin" /\ history' = Replace(history, "/login")
       \/ Screen = "NavigateRoot" /\ history' = Replace(history, "/")
       \/ Screen = "Login" /\ authUser /\ history' = Push(history, "/")
    /\ hops' = hops + 1
    /\ UNCHANGED <<authLoading, authUser, activePage, pendingAuth, pendingNav>>
    /\ UNCHANGED notRoute

NextRoute ==
    \/ AuthResolved
    \/ HandleLogin
    \/ AuthStateChanged
    \/ LoginNavigate
    \/ Logout
    \/ SetActivePage
    \/ UserNavigates
    \/ Back
    \/ Redirect

BackOff == NormOff /\ ClassifyOff /\ BatchOff /\ UiOff /\ ApplyOff

InitRouteOnly == InitRoute /\ BackOff /\ DashOff /\ UploadOff /\ ChatOff /\ StudioOff

SpecRoute == InitRouteOnly /\ [][NextRoute]_vars

(***************************************************************************)
(* Dashboard: the table of error groups, loaded by fetchLogs, and the      *)
(* status select of its rows.                                              *)
(***************************************************************************)
MaxQueries == 2

MaxFetches == 3

MaxStatusReqs == 2

Queries == 1..MaxQueries

Docs == {"d1", "d2"}

RowStatuses == {"PENDING", "RESOLVED"}

NoRows == [query |-> 0, status |-> [d \in Docs |-> "PENDING"]]

HasRows(tbl) == tbl.query # 0

\* useCallback(..., [searchTerm, sortBy, sortOrder, selectedStatuses, selectedTypes]):
\* the function made by a render holds that render's query, tableData and metrics
FetchLogsOf(q, tbl, m) == [q |-> q, hasTable |-> HasRows(tbl), hasMetrics |-> m]

\* const isInitialLoad = !append && (offset === 0) && !tableData.length && !metrics
IsInitialLoad(fn) == ~fn.hasTable /\ ~fn.hasMetrics

\* fetchLogs(false, 0) up to its await
CallFetchLogs(fn) ==
    /\ issued < MaxFetches
    /\ IF IsInitialLoad(fn)
       THEN dLoading' = TRUE /\ UNCHANGED tableLoading
       ELSE tableLoading' = TRUE /\ UNCHANGED dLoading
    /\ fetches' = fetches \cup {[seq |-> issued + 1, q |-> fn.q, initial |-> IsInitialLoad(fn)]}
    /\ issued' = issued + 1

InitDash ==
    /\ dLoading = TRUE
    /\ tableLoading = FALSE
    /\ metrics = FALSE
    /\ table = NoRows
    /\ query = 1
    /\ fetchFn = FetchLogsOf(1, NoRows, FALSE)
    /\ timer = TRUE
    /\ bulk = "pending"
    /\ fetches = {}
    /\ issued = 0
    /\ fetchFailed = FALSE
    /\ updating = "null"
    /\ statusReqs = {}
    /\ serverStatus \in [Docs -> RowStatuses]
    /\ statusDone = [n |-> 0]

\* the timeout of the reactive table update: fetchLogs(false, 0)
TimerFires ==
    /\ timer
    /\ timer' = FALSE
    /\ CallFetchLogs(fetchFn)
    /\ UNCHANGED <<metrics, table, query, fetchFn, bulk, fetchFailed, updating, statusReqs,
                   serverStatus, statusDone>>
    /\ UNCHANGED notDash

\* the user changes the search, the sort or a filter: a new fetchLogs is made, the
\* effect clears the timeout and arms a new one
ChangeQuery ==
    /\ ~dLoading
    /\ \E q \in Queries \ {query} :
          /\ query' = q
          /\ fetchFn' = FetchLogsOf(q, table, metrics)
    /\ timer' = TRUE
    /\ UNCHANGED <<dLoading, tableLoading, metrics, table, bulk, fetches, issued, fetchFailed,
                   updating, statusReqs, serverStatus, statusDone>>
    /\ UNCHANGED notDash

\* onRefresh={() => fetchLogs(false, 0)}, and runAnalysis after its request
Refresh ==
    /\ ~dLoading
    /\ CallFetchLogs(fetchFn)
    /\ UNCHANGED <<metrics, table, query, fetchFn, timer, bulk, fetchFailed, updating,
                   statusReqs, serverStatus, statusDone>>
    /\ UNCHANGED notDash

\* loadDashboard after its await: setMetrics(bulk.metrics), ..., fetchLogs(false, 0),
\* the fetchLogs of the first render
BulkArrives ==
    /\ bulk = "pending"
    /\ bulk' = "done"
    /\ metrics' = TRUE
    /\ CallFetchLogs(FetchLogsOf(1, NoRows, FALSE))
    /\ UNCHANGED <<table, query, fetchFn, timer, fetchFailed, updating, statusReqs,
                   serverStatus, statusDone>>
    /\ UNCHANGED notDash

\* loadDashboard: catch
BulkFails ==
    /\ bulk = "pending"
    /\ bulk' = "failed"
    /\ UNCHANGED <<dLoading, tableLoading, metrics, table, query, fetchFn, timer, fetches,
                   issued, fetchFailed, updating, statusReqs, serverStatus, statusDone>>
    /\ UNCHANGED notDash

\* fetchLogs after its await: setTableData(newTableData); finally
FetchArrives ==
    /\ \E r \in fetches :
          /\ fetches' = fetches \ {r}
          /\ table' = [query |-> r.q, status |-> serverStatus]
          /\ dLoading' = IF r.initial THEN FALSE ELSE dLoading
    /\ tableLoading' = FALSE
    /\ UNCHANGED <<metrics, query, fetchFn, timer, bulk, issued, fetchFailed, updating,
                   statusReqs, serverStatus, statusDone>>
    /\ UNCHANGED notDash

\* fetchLogs: catch; finally
FetchFails ==
    /\ \E r \in fetches :
          /\ fetches' = fetches \ {r}
          /\ dLoading' = IF r.initial THEN FALSE ELSE dLoading
    /\ tableLoading' = FALSE
    /\ fetchFailed' = TRUE
    /\ UNCHANGED <<metrics, table, query, fetchFn, timer, bulk, issued, updating,
                   statusReqs, serverStatus, statusDone>>
    /\ UNCHANGED notDash

\* handleStatusChange that sets the row's status before the request
OptimisticStatusChange ==
    /\ ~dLoading
    /\ HasRows(table)
    /\ Cardinality(statusReqs) < MaxStatusReqs
    /\ \E d \in Docs, s \in RowStatuses :
          /\ updating # d
          /\ s # table.status[d]
          /\ updating' = d
          /\ table' = [table EXCEPT !.status[d] = s]
          /\ statusReqs' = statusReqs \cup {[doc |-> d, status |-> s]}
    /\ UNCHANGED <<dLoading, tableLoading, metrics, query, fetchFn, timer, bulk, fetches,
                   issued, fetchFailed, serverStatus, statusDone>>
    /\ UNCHANGED notDash

\* handleStatusChange up to its await: setUpdating(docId); axios.post(UPDATE_STATUS)
HandleStatusChange ==
    /\ ~dLoading
    /\ HasRows(table)
    /\ Cardinality(statusReqs) < MaxStatusReqs
    /\ \E d \in Docs, s \in RowStatuses :
          /\ updating # d                  \* disabled={updating === row.doc_id}
          /\ s # table.status[d]           \* onChange
          /\ updating' = d
          /\ statusReqs' = statusReqs \cup {[doc |-> d, status |-> s]}
    /\ UNCHANGED <<dLoading, tableLoading, metrics, table, query, fetchFn, timer, bulk,
                   fetches, issued, fetchFailed, serverStatus, statusDone>>
    /\ UNCHANGED notDash

\* handleStatusChange after its await: setTableData(prev => prev.map(...)); finally
StatusSucceeds ==
    /\ \E r \in statusReqs :
          /\ statusReqs' = statusReqs \ {r}
          /\ serverStatus' = [serverStatus EXCEPT ![r.doc] = r.status]
          /\ table' = IF HasRows(table) THEN [table EXCEPT !.status[r.doc] = r.status]
                      ELSE table
          /\ statusDone' = [n |-> 1 - statusDone.n, doc |-> r.doc, status |-> r.status,
                            ok |-> TRUE, before |-> table.status[r.doc]]
    /\ updating' = "null"
    /\ UNCHANGED <<dLoading, tableLoading, metrics, query, fetchFn, timer, bulk, fetches,
                   issued, fetchFailed>>
    /\ UNCHANGED notDash

\* handleStatusChange: catch; finally
StatusFails ==
    /\ \E r \in statusReqs :
          /\ statusReqs' = statusReqs \ {r}
          /\ statusDone' = [n |-> 1 - statusDone.n, doc |-> r.doc, status |-> r.status,
                            ok |-> FALSE, before |-> table.status[r.doc]]
    /\ updating' = "null"
    /\ UNCHANGED <<dLoading, tableLoading, metrics, table, query, fetchFn, timer, bulk,
                   fetches, issued, fetchFailed, serverStatus>>
    /\ UNCHANGED notDash

NextDash ==
    \/ TimerFires
    \/ ChangeQuery
    \/ Refresh
    \/ BulkArrives
    \/ BulkFails
    \/ FetchArrives
    \/ FetchFails
    \/ HandleStatusChange
    \/ StatusSucceeds
    \/ StatusFails

InitDashOnly == InitDash /\ BackOff /\ RouteOff /\ UploadOff /\ ChatOff /\ StudioOff

SpecDash == InitDashOnly /\ [][NextDash]_vars

(***************************************************************************)
(* UploadLogs: the list of files and handleUploadAll, which posts the      *)
(* pending files one after the other.                                      *)
(***************************************************************************)
MaxFiles == 3

FileIds == 1..MaxFiles

\* prev.map(item => item.id === id ? { ...item, status, progress } : item)
SetFile(files, id, st, pr) ==
    [k \in DOMAIN files |->
        IF files[k].id = id THEN [files[k] EXCEPT !.status = st, !.progress = pr]
        ELSE files[k]]

\* prev.map(item => item.id === id ? { ...item, progress } : item)
SetProgress(files, id, pr) ==
    [k \in DOMAIN files |->
        IF files[k].id = id THEN [files[k] EXCEPT !.progress = pr] ELSE files[k]]

RECURSIVE Filter(_, _)
\* files.filter(f => f.status === st), as ids
Filter(files, st) ==
    IF files = <<>> THEN <<>>
    ELSE (IF Head(files).status = st THEN <<Head(files).id>> ELSE <<>>)
         \o Filter(Tail(files), st)

\* prev.filter(f => f.id !== id)
Without(files, id) == SelectSeq(files, LAMBDA f : f.id # id)

InitUpload ==
    /\ uploadingFiles = <<>>
    /\ isGlobalLoading = FALSE
    /\ filesToUpload = <<>>
    /\ upIdx = 0
    /\ nextId = 0
    /\ uploadLog = <<>>
    /\ outcome = [i \in FileIds |-> "none"]

\* handleFileSelect / onDrop: addFiles
AddFile ==
    /\ nextId < MaxFiles
    /\ nextId' = nextId + 1
    /\ uploadingFiles' =
          Append(uploadingFiles, [id |-> nextId + 1, status |-> "pending", progress |-> 0])
    /\ UNCHANGED <<isGlobalLoading, filesToUpload, upIdx, uploadLog, outcome>>
    /\ UNCHANGED notUpload

\* removeFile, its button disabled={isGlobalLoading}
RemoveFile ==
    /\ ~isGlobalLoading
    /\ \E k \in DOMAIN uploadingFiles :
          uploadingFiles' = Without(uploadingFiles, uploadingFiles[k].id)
    /\ UNCHANGED <<isGlobalLoading, filesToUpload, upIdx, nextId, uploadLog, outcome>>
    /\ UNCHANGED notUpload

\* Clear: setUploadingFiles([]), disabled={isGlobalLoading}
Clear ==
    /\ ~isGlobalLoading
    /\ uploadingFiles # <<>>
    /\ uploadingFiles' = <<>>
    /\ UNCHANGED <<isGlobalLoading, filesToUpload, upIdx, nextId, uploadLog, outcome>>
    /\ UNCHANGED notUpload

\* handleUploadAll up to the first await: setIsGlobalLoading(true), filesToUpload,
\* the first file set to 'uploading', axios.post
HandleUploadAll ==
    /\ ~isGlobalLoading
    /\ Filter(uploadingFiles, "pending") # <<>>
    /\ isGlobalLoading' = TRUE
    /\ filesToUpload' = Filter(uploadingFiles, "pending")
    /\ upIdx' = 1
    /\ uploadingFiles' = SetFile(uploadingFiles, filesToUpload'[1], "uploading", 10)
    /\ uploadLog' = <<filesToUpload'[1]>>
    /\ UNCHANGED <<nextId, outcome>>
    /\ UNCHANGED notUpload

\* onUploadProgress
UploadProgress ==
    /\ upIdx > 0
    /\ uploadingFiles' = SetProgress(uploadingFiles, filesToUpload[upIdx], 55)
    /\ uploadingFiles' # uploadingFiles
    /\ UNCHANGED <<isGlobalLoading, filesToUpload, upIdx, nextId, uploadLog, outcome>>
    /\ UNCHANGED notUpload

\* the loop from the end of one request to the next await, or to the return:
\* the file is marked; the next file is set to 'uploading' and posted, or
\* setIsGlobalLoading(false)
EndOfRequest(st, pr, oc) ==
    /\ upIdx > 0
    /\ outcome' = [outcome EXCEPT ![filesToUpload[upIdx]] = oc]
    /\ LET marked == SetFile(uploadingFiles, filesToUpload[upIdx], st, pr)
       IN IF upIdx < Len(filesToUpload)
          THEN /\ uploadingFiles' = SetFile(marked, filesToUpload[upIdx + 1], "uploading", 10)
               /\ upIdx' = upIdx + 1
               /\ uploadLog' = Append(uploadLog, filesToUpload[upIdx + 1])
               /\ UNCHANGED isGlobalLoading
          ELSE /\ uploadingFiles' = marked
               /\ upIdx' = 0
               /\ isGlobalLoading' = FALSE
               /\ UNCHANGED uploadLog
    /\ UNCHANGED <<filesToUpload, nextId>>
    /\ UNCHANGED notUpload

\* await axios.post(...) resolves
UploadSucceeds ==
    /\ isGlobalLoading
    /\ EndOfRequest("completed", 100, "ok")

\* a catch that leaves the loop
UploadFailsStop ==
    /\ upIdx > 0
    /\ outcome' = [outcome EXCEPT ![filesToUpload[upIdx]] = "failed"]
    /\ uploadingFiles' = SetFile(uploadingFiles, filesToUpload[upIdx], "error", 0)
    /\ upIdx' = 0
    /\ isGlobalLoading' = FALSE
    /\ UNCHANGED <<filesToUpload, nextId, uploadLog>>
    /\ UNCHANGED notUpload

\* await axios.post(...) rejects: catch
UploadFails ==
    /\ isGlobalLoading
    /\ EndOfRequest("error", 0, "failed")

NextUpload ==
    \/ AddFile
    \/ RemoveFile
    \/ Clear
    \/ HandleUploadAll
    \/ UploadProgress
    \/ UploadSucceeds
    \/ UploadFails

InitUploadOnly == InitUpload /\ BackOff /\ RouteOff /\ DashOff /\ ChatOff /\ StudioOff

SpecUpload == InitUploadOnly /\ [][NextUpload]_vars

(***************************************************************************)
(* ChatAgent: the message list, handleSend and the back button.            *)
(***************************************************************************)
MaxSends == 3

InitChat ==
    /\ input = ""
    /\ messages = <<>>
    /\ isLoading = FALSE
    /\ inFlight = 0
    /\ sent = 0

\* the textarea's onChange, the "Search Database" card: setInput
SetInput ==
    /\ \E text \in {"", "question"} : input' = text /\ input' # input
    /\ UNCHANGED <<messages, isLoading, inFlight, sent>>
    /\ UNCHANGED notChat

\* handleSend(textOverride) up to its await; the text is the override or the input
Send(textOverride) ==
    LET textToSend == IF textOverride # "" THEN textOverride ELSE input
    IN /\ sent < MaxSends
       /\ ~(textToSend = "" \/ isLoading)      \* if (!textToSend.trim() || isLoading) return
       /\ input' = IF textOverride = "" THEN "" ELSE input
       /\ messages' = Append(messages, [role |-> "user", n |-> sent + 1, content |-> textToSend])
       /\ isLoading' = TRUE
       /\ inFlight' = inFlight + 1
       /\ sent' = sent + 1
       /\ UNCHANGED notChat

\* the send button and the Enter key: handleSend()
HandleSend == Send("") /\ input # ""

\* the "Root Cause Analysis" card, shown while there are no messages
SuggestionSend == Send("analysis") /\ messages = <<>>

\* handleSend after its await: the response; finally
ResponseArrives ==
    /\ inFlight > 0
    /\ messages' = Append(messages, [role |-> "assistant", n |-> sent, content |-> "response"])
    /\ isLoading' = FALSE
    /\ inFlight' = inFlight - 1
    /\ UNCHANGED <<input, sent>>
    /\ UNCHANGED notChat

\* handleSend: catch, "I'm sorry, I encountered an error. Please try again."; finally
ErrorArrives ==
    /\ inFlight > 0
    /\ messages' = Append(messages, [role |-> "assistant", n |-> sent, content |-> "sorry"])
    /\ isLoading' = FALSE
    /\ inFlight' = inFlight - 1
    /\ UNCHANGED <<input, sent>>
    /\ UNCHANGED notChat

\* the back button of the chat view: setMessages([])
BackButton ==
    /\ messages # <<>>
    /\ messages' = <<>>
    /\ UNCHANGED <<input, isLoading, inFlight, sent>>
    /\ UNCHANGED notChat

NextChat ==
    \/ SetInput
    \/ HandleSend
    \/ SuggestionSend
    \/ ResponseArrives
    \/ ErrorArrives
    \/ BackButton

InitChatOnly == InitChat /\ BackOff /\ RouteOff /\ DashOff /\ UploadOff /\ StudioOff

SpecChat == InitChatOnly /\ [][NextChat]_vars

(***************************************************************************)
(* GroupingStudio: the table of groups, the search filter, the selection   *)
(* of rows and the select-all checkbox of the header.                      *)
(***************************************************************************)
StudioDocs == {"g1", "g2", "g3"}

SearchQueries == {"", "timeout"}

\* the groups one of whose fields includes the query
Matches(q) == IF q = "" THEN StudioDocs ELSE {"g1", "g2"}

\* the search filter effect
FilterData(d, q) == IF q # "" THEN d \cap Matches(q) ELSE d

\* checked={selectedIds.length === filteredData.length && filteredData.length > 0}
HeaderChecked(sel, shown) ==
    Cardinality(sel) = Cardinality(shown) /\ Cardinality(shown) > 0

InitStudio ==
    /\ data = {}
    /\ filteredData = {}
    /\ searchQuery = ""
    /\ selectedIds = {}

\* fetchData: setData(response.data); setFilteredData(response.data); then the
\* search filter effect, as data has changed
FetchData ==
    /\ \E d \in SUBSET StudioDocs :
          /\ data' = d
          /\ filteredData' = FilterData(d, searchQuery)
    /\ UNCHANGED <<searchQuery, selectedIds>>
    /\ UNCHANGED notStudio

\* setSearchQuery, then the search filter effect
SetSearchQuery ==
    /\ \E q \in SearchQueries \ {searchQuery} :
          /\ searchQuery' = q
          /\ filteredData' = FilterData(data, q)
    /\ UNCHANGED <<data, selectedIds>>
    /\ UNCHANGED notStudio

\* the header checkbox: onCheckedChange(!checked) -> handleSelectAll
HandleSelectAll ==
    /\ selectedIds' = IF ~HeaderChecked(selectedIds, filteredData) THEN filteredData ELSE {}
    /\ selectedIds' # selectedIds
    /\ UNCHANGED <<data, filteredData, searchQuery>>
    /\ UNCHANGED notStudio

\* the checkbox of a row: onCheckedChange(!checked) -> handleSelectOne
HandleSelectOne ==
    /\ \E id \in filteredData :
          selectedIds' = IF id \notin selectedIds THEN selectedIds \cup {id}
                         ELSE selectedIds \ {id}
    /\ UNCHANGED <<data, filteredData, searchQuery>>
    /\ UNCHANGED notStudio

\* saveRule after its request: setSelectedIds([])
SaveRule ==
    /\ selectedIds # {}
    /\ selectedIds' = {}
    /\ UNCHANGED <<data, filteredData, searchQuery>>
    /\ UNCHANGED notStudio

NextStudio ==
    \/ FetchData
    \/ SetSearchQuery
    \/ HandleSelectAll
    \/ HandleSelectOne
    \/ SaveRule

InitStudioOnly == InitStudio /\ BackOff /\ RouteOff /\ DashOff /\ UploadOff /\ ChatOff

SpecStudio == InitStudioOnly /\ [][NextStudio]_vars

(***************************************************************************)
(* C1.  Normalization is idempotent: for every input x,                    *)
(* normalizeErrorPattern(normalizeErrorPattern(x)) equals                  *)
(* normalizeErrorPattern(x).                                               *)
(* Violated: in "123456C:\d" the digit run is followed by a word           *)
(* character, so the long-digit rule (\b\d{6,}\b) does not match; the      *)
(* Windows-path rule, which runs later, then rewrites "C:\d" to            *)
(* "[FILE_PATH]", and in the second application the digit run is followed  *)
(* by "[" and is replaced by "[ID]".                                       *)
(***************************************************************************)
C1_Idempotent == npc = "twice" => out2 = out1

(***************************************************************************)
(* What the group store should hold: for every fingerprint, the number of  *)
(* source records the classifier gives that fingerprint.                   *)
(***************************************************************************)
FingerprintOf(r) == Fingerprint(ClassOfShape[r.f])

SourceFingerprints == {FingerprintOf(source[i]) : i \in DOMAIN source}

TrueCount(fp) == Cardinality({i \in DOMAIN source : FingerprintOf(source[i]) = fp})

StoredCount(fp) == IF fp \in DOMAIN groups THEN groups[fp].count ELSE 0

\* the counts of a single uninterrupted run over the source
CountsExact ==
    \A fp \in DOMAIN groups \cup SourceFingerprints : StoredCount(fp) = TrueCount(fp)

(***************************************************************************)
(* C2.  After any sequence of passes (completed, aborted by a store        *)
(* failure, interrupted, re-run), once a pass has completed the stored     *)
(* count of every fingerprint equals the number of source records of that  *)
(* fingerprint: none is counted twice, none at or before the checkpoint is *)
(* left uncounted.                                                         *)
(* Violated in two ways.  A page is flushed, the pass stops before the     *)
(* checkpoint is persisted, and the next pass flushes the same page again: *)
(* the increment is applied twice.  And a page ends between two records    *)
(* of one timestamp: the checkpoint takes that timestamp, the pass stops,  *)
(* and the next pass resumes strictly after it, past the second record.    *)
(***************************************************************************)
C2_CountsMatchSource == pc = "done" => CountsExact

(***************************************************************************)
(* C3.  A run that is aborted before a page's flush completes (a failed    *)
(* read, a failed flush, an interruption before the flush) and is re-run   *)
(* ends with the counts of a single uninterrupted run.                     *)
(* Violated: the first page was flushed and the checkpoint advanced to the *)
(* timestamp of its last record; the run is aborted before the flush of    *)
(* the second page, whose first record has the same timestamp; the re-run  *)
(* resumes strictly after the checkpoint and never counts that record.     *)
(***************************************************************************)
C3_RerunEqualsUninterrupted ==
    (/\ pc = "done"
     /\ faultKinds # {}
     /\ faultKinds \subseteq {"read", "flush", "interrupt"}) => CountsExact

(***************************************************************************)
(* C4.  A page's flush succeeds and persisting the checkpoint then fails:  *)
(* after the next run every count equals the count of a run in which the   *)
(* checkpoint advance had succeeded.                                       *)
(* Violated: the next run loads the old checkpoint, reads the same page    *)
(* and increments the counts of its groups a second time.                  *)
(***************************************************************************)
C4_NoDoubleCountAfterCheckpointFailure ==
    (pc = "done" /\ faultKinds = {"checkpoint"}) => CountsExact

(***************************************************************************)
(* C5.  The checkpoint is advanced only after the page's upsert has been   *)
(* confirmed: in no reachable state does the checkpoint cover (is at or    *)
(* after the timestamp of) a record whose page has not been flushed.       *)
(* Violated: the advance itself follows the flush, but the checkpoint is a *)
(* timestamp, and when the first record of the next page has the timestamp *)
(* of the last record of the flushed page, the checkpoint covers it.       *)
(***************************************************************************)
C5_CheckpointCoversOnlyFlushed ==
    \A i \in DOMAIN source : source[i].ts <= checkpoint => flushedTimes[i] >= 1

(***************************************************************************)
(* C6.  When a read or a write to a store fails the pass stops: the        *)
(* checkpoint keeps the value it had before the failing page, the page in  *)
(* hand is the last one of the pass, and retrying the whole pass is safe:  *)
(* the retry ends with the counts of an undisturbed run.                   *)
(* Violated in the last part: after a failed checkpoint write the retry    *)
(* counts the flushed page twice (C4), and after a failed read or flush    *)
(* behind a page boundary that splits a timestamp the retry skips a        *)
(* record (C3).                                                            *)
(***************************************************************************)
C6_StoreFailureStopsPassRetrySafe ==
    /\ pc = "aborted" =>
          /\ checkpoint = cpAtPageStart
          /\ \A i \in DOMAIN source : i > cursor + PageSize => flushedTimes[i] = 0
    /\ (/\ pc = "done"
        /\ faultKinds # {}
        /\ faultKinds \subseteq {"read", "flush", "checkpoint"}) => CountsExact

C8_RuleFailureExclusive ==
    (cpc = "classified" /\ IsRuleFailure(rec)) =>
        /\ cls.level = "RuleFailure"
        /\ cls.inputs = <<rec.exceptionClass, rec.ruleName, rec.ruleType>>

\* a classified record that satisfies the triggers of Level 1 and of Level 2
C8_BothTriggers ==
    /\ cpc = "classified"
    /\ IsRuleFailure(rec)
    /\ IsLoggerPattern(rec)
    /\ cls.level = "RuleFailure"

\* every shape of record gets one of the three levels, the last one when neither
\* trigger holds
ClassifyTotal ==
    \A f \in ClassifyInputs :
        /\ Classify(f).level \in Levels
        /\ (~IsRuleFailure(f) /\ ~IsLoggerPattern(f)) => Classify(f).level = "Unclassified"

(***************************************************************************)
(* C9.  Totality of classification: every record, including one that has   *)
(* no classification field, receives exactly one of the three levels, and  *)
(* Unclassified when it matches neither Level 1 nor Level 2; every record  *)
(* read enters the page and is counted in exactly one group of the page's  *)
(* aggregate and of the flush; and whatever the records are, the next page *)
(* can be read and classified.                                             *)
(***************************************************************************)
C9_ClassificationTotal ==
    /\ ClassifyTotal
    /\ (pc = "scan" /\ cursor < Len(source)) => ENABLED ReadPage
    /\ pc \in {"aggregated", "flushed"} =>
          /\ Len(page) = IF cursor + PageSize < Len(source) THEN PageSize
                         ELSE Len(source) - cursor
          /\ \A k \in DOMAIN page :
                /\ page[k].id = source[cursor + k].id
                /\ page[k].level \in Levels
                /\ (~IsRuleFailure(source[cursor + k].f)
                        /\ ~IsLoggerPattern(source[cursor + k].f))
                       => page[k].level = "Unclassified"
                /\ page[k].fp \in DOMAIN agg
          /\ \A fp \in DOMAIN agg :
                agg[fp].count = Cardinality({k \in DOMAIN page : page[k].fp = fp})
    /\ pc = "flushed" =>
          \A k \in DOMAIN page :
              /\ page[k].fp \in DOMAIN groups
              /\ groups[page[k].fp].count >= agg[page[k].fp].count

\* a full page that holds a record with no field, flushed to its Unclassified group
C9_MalformedRecordCounted ==
    /\ pc = "flushed"
    /\ Len(page) = PageSize
    /\ \E k \in DOMAIN page :
          /\ DOMAIN source[cursor + k].f = {}
          /\ page[k].level = "Unclassified"
          /\ groups[page[k].fp].group_type = "Unclassified"
          /\ \E j \in DOMAIN page : page[j].level # "Unclassified"

C11_DistinctTuplesDistinctGroups ==
    /\ \A a, b \in assigned :
          (a.level # b.level \/ a.inputs # b.inputs) => a.fp # b.fp
    /\ \A j, k \in DOMAIN page :
          (page[j].level # page[k].level \/ page[j].inputs # page[k].inputs)
              => page[j].fp # page[k].fp

(***************************************************************************)
(* C12.  After any sequence of page flushes and re-runs, the sample        *)
(* references of every ErrorGroup are at most SampleCap ids, each the id   *)
(* of a source record of the group's fingerprint.                          *)
(***************************************************************************)
C12_SampleCap ==
    \A fp \in DOMAIN groups :
        /\ Len(groups[fp].example_logs) <= SampleCap
        /\ \A k \in DOMAIN groups[fp].example_logs :
              /\ groups[fp].example_logs[k] \in DOMAIN source
              /\ FingerprintOf(source[groups[fp].example_logs[k]]) = fp

\* a group that has counted more records than the cap, over two flushes, and is full
C12_FullGroup ==
    \E fp \in DOMAIN groups :
        /\ groups[fp].count > SampleCap
        /\ Len(groups[fp].example_logs) = SampleCap
        /\ groups[fp].first_seen < groups[fp].last_seen

(***************************************************************************)
(* C13.  The ingestion sets a group's diagnosis status to PENDING exactly  *)
(* when it creates the group: in every flush, a group the flush creates    *)
(* has status PENDING, and a group that existed keeps its status, report,  *)
(* comments and assigned user, whatever its status is.                     *)
(***************************************************************************)
C13_PendingOnlyOnCreate ==
    [][(pc = "aggregated" /\ pc' = "flushed") =>
          \A fp \in DOMAIN groups' :
              IF fp \in DOMAIN groups
              THEN /\ groups'[fp].status = groups[fp].status
                   /\ groups'[fp].report = groups[fp].report
                   /\ groups'[fp].comments = groups[fp].comments
                   /\ groups'[fp].assigned_user = groups[fp].assigned_user
              ELSE groups'[fp].status = "PENDING"]_vars

\* a flush has just counted records into a group that existed and is not PENDING
C13_UpsertOnTriagedGroup ==
    /\ pc = "flushed"
    /\ \E k \in DOMAIN page :
          /\ groups[page[k].fp].status \notin {"PENDING"}
          /\ groups[page[k].fp].count > agg[page[k].fp].count

(***************************************************************************)
(* C14.  Field ownership: every write the operator UI posts for a group    *)
(* (a status change from Dashboard, InspectionModal or GroupingStudio, a   *)
(* comment save) carries only the document id, the new status or the       *)
(* comments text, and the acting user; it creates and removes no group and *)
(* changes no count, first_seen, last_seen or example_logs.                *)
(***************************************************************************)
C14_UiWritesOwnFields ==
    [][writes' # writes =>
          /\ DOMAIN lastWrite' \subseteq {"doc_id", "status", "comments", "user"}
          /\ "doc_id" \in DOMAIN lastWrite'
          /\ DOMAIN groups' = DOMAIN groups
          /\ \A fp \in DOMAIN groups :
                /\ groups'[fp].count = groups[fp].count
                /\ groups'[fp].first_seen = groups[fp].first_seen
                /\ groups'[fp].last_seen = groups[fp].last_seen
                /\ groups'[fp].example_logs = groups[fp].example_logs]_vars

\* the operator has changed the status of a group that has counted two records
C14_StatusChanged ==
    /\ writes = 1
    /\ "status" \in DOMAIN lastWrite
    /\ "user" \in DOMAIN lastWrite
    /\ lastWrite.doc_id \in DOMAIN groups
    /\ groups[lastWrite.doc_id].status = lastWrite.status
    /\ lastWrite.status # "PENDING"
    /\ groups[lastWrite.doc_id].count >= 2

C16_CompletedIsTerminal ==
    [][\A fp \in DOMAIN groups :
          groups[fp].status = "DIAGNOSIS COMPLETED" =>
              /\ fp \in DOMAIN groups'
              /\ groups'[fp].status = "DIAGNOSIS COMPLETED"]_vars

\* the sessions whose request has a pass between its checkpoint read and its end
RunningPasses == {s \in Sessions : applyRun[s].pc \in {"scan", "aggregated", "flushed"}}

(***************************************************************************)
(* C17.  At most one batch pass is executing at any time, the passes that  *)
(* "Apply Rules Now" starts included: the checkpoint reads and advances of *)
(* two passes never interleave.                                            *)
(* Violated: isApplying disables the button of the page that posted the    *)
(* request only; a second browser session posts its own request while the  *)
(* pass of the first is between two pages.                                 *)
(***************************************************************************)
C17_OnePassAtATime == Cardinality(RunningPasses) <= 1

\* a JavaScript string: a sequence of characters
IsJsString(v) == DOMAIN v = 1..Len(v) /\ \A k \in DOMAIN v : v[k] \in STRING

\* normalizeErrorPattern has a value, a string, for every input
NormalizeTotal == \A m \in NormInputs : IsJsString(normalizeErrorPattern(m))

(***************************************************************************)
(* C18.  normalizeErrorPattern never fails: it has a value for every       *)
(* input; for null, undefined and the empty string it returns the empty    *)
(* string, and for every other string it returns a string.                 *)
(***************************************************************************)
C18_NeverFails ==
    /\ NormalizeTotal
    /\ npc \in {"once", "twice"} =>
          /\ IsJsString(out1)
          /\ msg \in {JsNull, JsUndefined, JsString(<<>>)} => out1 = <<>>

\* normalizeErrorPattern(undefined) has returned ''
C18_UndefinedGivesEmpty == npc = "once" /\ msg = JsUndefined /\ out1 = <<>>

(***************************************************************************)
(* C19.  Two messages that are identical except for the value of an ISO    *)
(* 8601 timestamp and the value of a standalone integer of 6 or more       *)
(* digits normalize to the same string.                                    *)
(* Violated: the timestamp rule wants seconds and a fraction after a dot.  *)
(* Of "2025-01-01T10:00:00,123" the fraction ",123" is left, of            *)
(* "2025-01-01T10:01" the time "T10:01" is left behind "[DATE]", and the   *)
(* results differ from those of the other timestamps.                      *)
(***************************************************************************)
C19_TimestampAndIdMasked ==
    (npc = "both" /\ msg.kind = "timestamp_id") => out1 = out2

(***************************************************************************)
(* C20.  Two messages that differ only in a clock time ("Error at 10:00",  *)
(* "Error at 10:01") normalize to the same string, the time replaced by    *)
(* [DATE].                                                                 *)
(* Violated: no rule matches a clock time that stands without a date; both *)
(* messages are returned as they are.                                      *)
(***************************************************************************)
C20_ClockTimeMasked ==
    (npc = "both" /\ msg.kind = "clock") => (out1 = out2 /\ out1 = ErrorAtDate)

(***************************************************************************)
(* C21.  A token of uppercase letters, a hyphen and digits is replaced as  *)
(* a whole by [CASE_ID]; its digit run, however long, is never rewritten   *)
(* to [ID], because the case-id rule runs before the long-digit rule.      *)
(***************************************************************************)
C21_CaseIdProtected ==
    npc \in {"once", "twice"} =>
        /\ \A ctx \in CaseContexts, tok \in CaseTokens :
              msg = JsString(InContext(ctx, tok)) => out1 = InContext(ctx, PhCaseId)
        /\ ~Includes(out1, PhId)

\* "CO-1234567" has become "[CASE_ID]"
C21_LongCaseIdReplaced ==
    /\ npc = "once"
    /\ msg = JsString(<<"C", "O", "-", "1", "2", "3", "4", "5", "6", "7">>)
    /\ out1 = PhCaseId

(***************************************************************************)
(* C22.  Of a message containing an http(s) URL with a query string, the   *)
(* result keeps the URL up to the "?" and has [QUERY_PARAMS] in place of   *)
(* the whole query string.                                                 *)
(* Violated: the Unix path rule runs first and replaces "//host/path" by   *)
(* [FILE_PATH]; the query string rule then finds no "http://" and the      *)
(* query string is left to the rules for single parameters.                *)
(***************************************************************************)
C22_QueryStringReplaced ==
    npc \in {"once", "twice"} =>
        \A ctx \in UrlContexts, u \in UrlBases, q \in QueryStrings :
            msg = JsString(InContext(ctx, UrlWithQuery(u, q)))
                => out1 = InContext(ctx, UrlWithQuery(u, PhQueryParams))

(***************************************************************************)
(* C23.  The application is protected by login: the protected pages are    *)
(* rendered only while auth loading is false and a user is signed in; with *)
(* no signed-in user every route ends at /login, with a signed-in user     *)
(* every route, /login too, ends at /, and no chain of redirects is longer *)
(* than two steps.                                                         *)
(***************************************************************************)
NoRedirectPending ==
    \/ Screen \in {"Loading", "Outlet"}
    \/ Screen = "Login" /\ ~authUser

C23_ProtectedByLogin ==
    /\ Screen = "Outlet" => ~authLoading /\ authUser
    /\ (~authLoading /\ ~authUser /\ NoRedirectPending) => Location = "/login"
    /\ (~authLoading /\ authUser /\ NoRedirectPending) => Location = "/" /\ Screen = "Outlet"
    /\ hops <= 2

\* another path, with no user signed in, has been redirected to / and then to /login
C23_RedirectedToLogin ==
    /\ ~authLoading
    /\ ~authUser
    /\ Location = "/login"
    /\ hops = 2

(***************************************************************************)
(* C24.  Dashboard.handleStatusChange changes the displayed status of a    *)
(* row only after its update request has succeeded, and then to the status *)
(* requested; starting the request changes no row, a failed request leaves *)
(* the rows as they were, and in both cases updating is cleared.           *)
(***************************************************************************)
C24_StatusOnlyAfterSuccess ==
    [][/\ (fetches' = fetches /\ table' # table) =>
             /\ statusDone' # statusDone
             /\ statusDone'.ok
       /\ statusDone' # statusDone =>
             /\ updating' = "null"
             /\ table' = IF statusDone'.ok
                         THEN [table EXCEPT !.status[statusDone'.doc] = statusDone'.status]
                         ELSE table]_vars

\* a request to change a row has failed: the row shows the status it had
C24_FailedUpdateKeepsStatus ==
    /\ "ok" \in DOMAIN statusDone
    /\ ~statusDone.ok
    /\ statusDone.status # statusDone.before
    /\ table.status[statusDone.doc] = statusDone.before
    /\ updating = "null"

(***************************************************************************)
(* C25.  Dashboard.fetchLogs puts the page into the full-page loading      *)
(* state only when there is no table data and no metrics; a refresh, sort, *)
(* filter or search after data has loaded sets the overlay of the table    *)
(* only.                                                                   *)
(* Violated: fetchLogs is memoized on the query alone, so it tests the     *)
(* tableData and metrics of the render that made it.  The fetchLogs of the *)
(* first render, called by the refresh button after the table has loaded,  *)
(* finds both empty and sets loading.                                      *)
(***************************************************************************)
C25_FullPageLoadingOnlyInitially ==
    [][(~dLoading /\ dLoading') => (~HasRows(table) /\ ~metrics)]_vars

(***************************************************************************)
(* C27.  Once all requests of the Dashboard have completed (none failed),  *)
(* the table holds the result of the query issued last, the current        *)
(* search, sort and filter, whatever the order of the responses.           *)
(* Violated: every response is written to the table as it arrives; the     *)
(* response of an earlier query that arrives after that of the current     *)
(* query stays in the table.                                               *)
(***************************************************************************)
C27_TableHoldsLatestQuery ==
    (fetches = {} /\ ~timer /\ bulk # "pending" /\ ~fetchFailed /\ HasRows(table))
        => table.query = query

(***************************************************************************)
(* C26.  UploadLogs.handleUploadAll posts every file that was pending when *)
(* it started exactly once, in order; a failed upload marks that file, and *)
(* no other, 'error' and the files after it are still posted; when the     *)
(* handler has returned every such file has been posted, is 'completed' or *)
(* 'error' while it is in the list, and isGlobalLoading is false.          *)
(***************************************************************************)
FileOf(id) == {k \in DOMAIN uploadingFiles : uploadingFiles[k].id = id}

C26_UploadAllCompletes ==
    /\ \A k \in DOMAIN uploadingFiles :
          /\ uploadingFiles[k].status = "error" <=> outcome[uploadingFiles[k].id] = "failed"
          /\ uploadingFiles[k].status = "completed" <=> outcome[uploadingFiles[k].id] = "ok"
    /\ \A j, k \in DOMAIN uploadLog : uploadLog[j] = uploadLog[k] => j = k
    /\ isGlobalLoading =>
          /\ upIdx \in 1..Len(filesToUpload)
          /\ uploadLog = SubSeq(filesToUpload, 1, upIdx)
          /\ \A k \in DOMAIN filesToUpload : FileOf(filesToUpload[k]) # {}
    /\ ~isGlobalLoading =>
          /\ upIdx = 0
          /\ uploadLog = filesToUpload
          /\ \A k \in DOMAIN filesToUpload : outcome[filesToUpload[k]] \in {"ok", "failed"}

\* the handler has returned; its first file failed and its second file was uploaded
C26_SecondFileUploadedAfterFailure ==
    /\ ~isGlobalLoading
    /\ Len(filesToUpload) >= 2
    /\ outcome[filesToUpload[1]] = "failed"
    /\ outcome[filesToUpload[2]] = "ok"
    /\ \E j, k \in DOMAIN uploadingFiles :
          /\ uploadingFiles[j].id = filesToUpload[1] /\ uploadingFiles[j].status = "error"
          /\ uploadingFiles[k].id = filesToUpload[2] /\ uploadingFiles[k].status = "completed"

(***************************************************************************)
(* C28.  In ChatAgent, after any interleaving of handleSend, the arrival   *)
(* of a response or an error, and the back button, the message list        *)
(* alternates user and assistant messages starting with a user message,    *)
(* every assistant message directly follows the user message it answers,   *)
(* and at most one request is in flight.                                   *)
(* Violated: the back button empties the list while a request is in        *)
(* flight; the answer is then appended to the empty list, which starts     *)
(* with an assistant message.                                              *)
(***************************************************************************)
C28_MessagesAlternate ==
    /\ inFlight <= 1
    /\ \A k \in DOMAIN messages :
          IF k % 2 = 1 THEN messages[k].role = "user"
          ELSE /\ messages[k].role = "assistant"
               /\ messages[k].n = messages[k - 1].n

(***************************************************************************)
(* C29.  In GroupingStudio, after any sequence of row selections,          *)
(* select-all toggles, search changes and data refreshes, the select-all   *)
(* checkbox of the header is shown checked exactly when the filtered table *)
(* is non-empty and every row shown is selected.                           *)
(* Violated: the checkbox compares the number of selected ids with the     *)
(* number of rows shown, and the selection outlives a change of the filter *)
(* and a refresh: with one hidden row selected and one other row shown it  *)
(* is checked, and with all rows shown and a hidden row selected it is not.*)
(***************************************************************************)
C29_HeaderCheckedIffAllSelected ==
    HeaderChecked(selectedIds, filteredData)
        <=> (filteredData # {} /\ filteredData \subseteq selectedIds)

====
